---- MODULE Spec2Model ----
(***************************************************************************)
(* Neo8085: the two-pass assembler (assembler.py) and the instruction      *)
(* level emulator (processor.py) as one state machine.                     *)
(*                                                                         *)
(* Text.  A Python string is a sequence of lexemes ("atoms").  An atom is  *)
(* a record [s, d]: a run of letters/digits/underscores that is not a      *)
(* numeral is [s |-> "NAME", d |-> <<>>]; a decimal numeral is             *)
(* [s |-> "#", d |-> digits]; a numeral with the H suffix is               *)
(* [s |-> "#H", d |-> hex digits]; every other character (blank, comma,    *)
(* colon, semicolon, operator) is an atom of its own.  A run of hex digits *)
(* followed by H is always written as a numeral, as int(.., 16) reads it.  *)
(***************************************************************************)
EXTENDS Integers, Sequences, FiniteSets, TLC

W(str) == [s |-> str, d |-> <<>>]
Dec(ds) == [s |-> "#", d |-> ds]
Hex(ds) == [s |-> "#H", d |-> ds]
Lhex(ds) == [s |-> "#h", d |-> ds]
Blank == W(" ")
Comma == W(",")
Colon == W(":")
Semi == W(";")

(* Results of Python calls: k is "ok", "None" or the exception raised. *)
R(kind, val) == [k |-> kind, v |-> val]
Ok(val) == R("ok", val)
None == R("None", 0)
Raise(exc) == R(exc, 0)

(***************************************************************************)
(* Integer helpers: Python's &, |, ^ on unbounded two's complement ints.   *)
(***************************************************************************)
RECURSIVE Pow2(_)
Pow2(n) == IF n = 0 THEN 1 ELSE 2 * Pow2(n - 1)

RECURSIVE BitAnd(_, _)
BitAnd(x, y) ==
    IF x = 0 \/ y = 0 THEN 0
    ELSE IF x = -1 THEN y
    ELSE IF y = -1 THEN x
    ELSE (x % 2) * (y % 2) + 2 * BitAnd(x \div 2, y \div 2)

RECURSIVE BitOr(_, _)
BitOr(x, y) ==
    IF x = 0 THEN y
    ELSE IF y = 0 THEN x
    ELSE IF x = -1 \/ y = -1 THEN -1
    ELSE (IF (x % 2) + (y % 2) > 0 THEN 1 ELSE 0) + 2 * BitOr(x \div 2, y \div 2)

RECURSIVE BitXor(_, _)
BitXor(x, y) ==
    IF x = 0 THEN y
    ELSE IF y = 0 THEN x
    ELSE IF x = -1 THEN -1 - y
    ELSE IF y = -1 THEN -1 - x
    ELSE ((x + y) % 2) + 2 * BitXor(x \div 2, y \div 2)

(***************************************************************************)
(* String helpers (str.upper, str.strip, str.split, str.join, in).         *)
(***************************************************************************)
UpperName(str) ==
    CASE str = "mvi" -> "MVI"
      [] str = "hlt" -> "HLT"
      [] str = "org" -> "ORG"
      [] str = "a" -> "A"
      [] str = "#h" -> "#H"
      [] OTHER -> str

upper(str) == [i \in 1..Len(str) |-> [s |-> UpperName(str[i].s), d |-> str[i].d]]

RECURSIVE lstrip(_, _)
lstrip(str, chars) ==
    IF str # <<>> /\ str[1].s \in chars THEN lstrip(Tail(str), chars) ELSE str

RECURSIVE rstrip(_, _)
rstrip(str, chars) ==
    IF str # <<>> /\ str[Len(str)].s \in chars
    THEN rstrip(SubSeq(str, 1, Len(str) - 1), chars) ELSE str

strip(str, chars) == rstrip(lstrip(str, chars), chars)

Space == {" "}

endswith(str, ch) == str # <<>> /\ str[Len(str)].s = ch

contains(str, ch) == \E i \in 1..Len(str) : str[i].s = ch

(* str.split(ch): the pieces between occurrences of ch, empty ones included *)
RECURSIVE split_on(_, _, _)
split_on(str, ch, cur) ==
    IF str = <<>> THEN <<cur>>
    ELSE IF str[1].s = ch THEN <<cur>> \o split_on(Tail(str), ch, <<>>)
    ELSE split_on(Tail(str), ch, Append(cur, str[1]))

(* str.split(): the maximal runs of non-blank characters *)
RECURSIVE split_ws(_, _)
split_ws(str, cur) ==
    IF str = <<>> THEN (IF cur = <<>> THEN <<>> ELSE <<cur>>)
    ELSE IF str[1].s = " "
         THEN (IF cur = <<>> THEN <<>> ELSE <<cur>>) \o split_ws(Tail(str), <<>>)
         ELSE split_ws(Tail(str), Append(cur, str[1]))

split(str) == split_ws(str, <<>>)

(* " ".join(parts) *)
RECURSIVE join(_)
join(parts) ==
    IF parts = <<>> THEN <<>>
    ELSE IF Len(parts) = 1 THEN parts[1]
    ELSE parts[1] \o <<Blank>> \o join(Tail(parts))

(* line.split(";", 1)[0].strip() *)
remove_comment(line) == strip(split_on(line, ";", <<>>)[1], Space)

Operators == {"*", "/", "+", "-", "&", "|", "^", "<<", ">>"}

has_operator(str, ops) == \E i \in 1..Len(str) : str[i].s \in ops

(***************************************************************************)
(* Numeric literals: int(text, 10) and int(text[:-1], 16).                 *)
(***************************************************************************)
RECURSIVE digits_value(_, _, _)
digits_value(ds, base, acc) ==
    IF ds = <<>> THEN acc ELSE digits_value(Tail(ds), base, acc * base + ds[1])

(* int(text, base) of one numeral with an optional sign, as Python does *)
py_int(str) ==
    LET signed == Len(str) = 2 /\ str[1].s \in {"+", "-"}
        a == IF Len(str) = 1 THEN str[1] ELSE IF signed THEN str[2] ELSE W("")
        sgn == IF signed /\ str[1].s = "-" THEN -1 ELSE 1
    IN  IF a.d = <<>> THEN Raise("ValueError")
        ELSE IF a.s = "#H" THEN Ok(sgn * digits_value(a.d, 16, 0))
        ELSE IF a.s = "#" /\ \A i \in 1..Len(a.d) : a.d[i] < 10
             THEN Ok(sgn * digits_value(a.d, 10, 0))
        ELSE Raise("ValueError")

asm_parse_number(value_str) == py_int(strip(value_str, Space))

(* int(text): base 10 only, a numeral with the H suffix is a ValueError *)
py_int10(str0) ==
    LET str == strip(str0, Space)
    IN  IF str # <<>> /\ str[Len(str)].s = "#H" THEN Raise("ValueError") ELSE py_int(str)

(***************************************************************************)
(* Expression evaluator (Assembler8085._evaluate_expression).  symbols and *)
(* labels are functions from names (strings) to integers.                  *)
(***************************************************************************)
asm_resolve_symbol_or_value(value_str, symbols, labels) ==
    LET str == strip(value_str, Space)
        n == asm_parse_number(str)
    IN  IF str \in DOMAIN symbols THEN Ok(symbols[str])
        ELSE IF str \in DOMAIN labels THEN Ok(labels[str])
        ELSE IF n.k = "ok" THEN n ELSE None

(* the character loop: blanks end an operand, an operator is its own token *)
RECURSIVE tokenize(_, _, _)
tokenize(expr, cur, ops) ==
    LET flush == IF cur = <<>> THEN <<>> ELSE <<cur>>
    IN  IF expr = <<>> THEN flush
        ELSE IF expr[1].s = " " THEN flush \o tokenize(Tail(expr), <<>>, ops)
        ELSE IF expr[1].s \in ops THEN flush \o <<<<expr[1]>>>> \o tokenize(Tail(expr), <<>>, ops)
        ELSE tokenize(Tail(expr), Append(cur, expr[1]), ops)

apply_operator(operator, result, operand) ==
    CASE operator = "+" -> Ok(result + operand)
      [] operator = "-" -> Ok(result - operand)
      [] operator = "*" -> Ok(result * operand)
      [] operator = "/" -> IF operand = 0 THEN Raise("ZeroDivisionError")
                           ELSE IF operand > 0 THEN Ok(result \div operand)
                           ELSE Ok((0 - result) \div (0 - operand))
      [] operator = "&" -> Ok(BitAnd(result, operand))
      [] operator = "|" -> Ok(BitOr(result, operand))
      [] operator = "^" -> Ok(BitXor(result, operand))
      [] operator = "<<" -> IF operand < 0 THEN Raise("ValueError")
                            ELSE Ok(result * Pow2(operand))
      [] operator = ">>" -> IF operand < 0 THEN Raise("ValueError")
                            ELSE Ok(result \div Pow2(operand))
      [] OTHER -> Ok(result)

(* for i in range(1, len(tokens), 2): left to right, no precedence *)
RECURSIVE asm_eval_loop(_, _, _, _, _)
asm_eval_loop(tokens, i, result, symbols, labels) ==
    IF i > Len(tokens) \/ i + 1 > Len(tokens) THEN Ok(result)
    ELSE LET operand == asm_resolve_symbol_or_value(tokens[i + 1], symbols, labels)
             r == apply_operator(tokens[i][1].s, result, operand.v)
         IN  IF operand.k # "ok" THEN None
             ELSE IF r.k # "ok" THEN r
             ELSE asm_eval_loop(tokens, i + 2, r.v, symbols, labels)

asm_evaluate_expression(expr0, symbols, labels) ==
    LET expr == IF contains(expr0, ";") THEN remove_comment(expr0) ELSE expr0
        tokens == tokenize(expr, <<>>, Operators)
        first == asm_resolve_symbol_or_value(tokens[1], symbols, labels)
    IN  IF ~has_operator(expr, Operators)
        THEN asm_resolve_symbol_or_value(expr, symbols, labels)
        ELSE IF Len(tokens) < 3
        THEN (IF Len(tokens) = 1
              THEN asm_resolve_symbol_or_value(tokens[1], symbols, labels)
              ELSE None)
        ELSE IF first.k # "ok" THEN None
        ELSE asm_eval_loop(tokens, 2, first.v, symbols, labels)

(* the label table is looked up before the symbol table *)
resolve_label_first(value_str, symbols, labels) ==
    LET str == strip(value_str, Space)
    IN  IF str \in DOMAIN labels THEN Ok(labels[str])
        ELSE IF str \in DOMAIN symbols THEN Ok(symbols[str])
        ELSE asm_parse_number(str)

asm_resolve_symbol_or_number(value_str, symbols, labels) ==
    LET str == strip(value_str, Space)
        e == IF has_operator(str, Operators)
             THEN asm_evaluate_expression(str, symbols, labels) ELSE None
    IN  IF str \in DOMAIN symbols THEN Ok(symbols[str])
        ELSE IF str \in DOMAIN labels THEN Ok(labels[str])
        ELSE IF e.k = "None" THEN asm_parse_number(str)
        ELSE e

(***************************************************************************)
(* EQU pre-pass and the retry after the label pass.                        *)
(***************************************************************************)
RECURSIVE index_of(_, _, _)
index_of(parts, word, i) ==
    IF i > Len(parts) THEN 0
    ELSE IF parts[i] = word THEN i ELSE index_of(parts, word, i + 1)

(* the (symbol, value_expr, line_num) triples of lines 188-201 *)
RECURSIVE collect_equ(_, _)
collect_equ(code, line_num) ==
    IF line_num > Len(code) THEN <<>>
    ELSE LET parts == split(remove_comment(code[line_num]))
             equ_idx == index_of(parts, <<W("EQU")>>, 1)
             symbol == IF endswith(parts[1], ":")
                       THEN SubSeq(parts[1], 1, Len(parts[1]) - 1) ELSE parts[1]
             entry == [symbol |-> symbol,
                       value_expr |-> join(SubSeq(parts, equ_idx + 1, Len(parts))),
                       line_num |-> line_num]
         IN  (IF Len(parts) >= 3 /\ equ_idx > 1 THEN <<entry>> ELSE <<>>)
             \o collect_equ(code, line_num + 1)

(* one sweep of the worklist: for symbol, value_expr, line_num in equ_definitions *)
RECURSIVE equ_sweep(_, _, _, _, _, _)
equ_sweep(defs, i, symbols, labels, remaining, progress) ==
    IF i > Len(defs)
    THEN [k |-> "ok", symbols |-> symbols, remaining |-> remaining, progress |-> progress]
    ELSE LET resolved(value) ==
                 IF value.k = "ok" THEN (defs[i].symbol :> (value.v % 65536)) @@ symbols
                 ELSE symbols
             left(value) ==
                 IF value.k = "None" THEN Append(remaining, defs[i]) ELSE remaining
             next(value) ==
                 IF value.k \in {"ok", "None"}
                 THEN equ_sweep(defs, i + 1, resolved(value), labels, left(value),
                                progress \/ value.k = "ok")
                 ELSE [k |-> value.k, symbols |-> symbols, remaining |-> remaining,
                       progress |-> progress]
         IN  next(asm_evaluate_expression(defs[i].value_expr, symbols, labels))

(* while equ_definitions: sweep until empty or no progress ("stuck");      *)
(* sweeps counts the iterations of the while loop                          *)
RECURSIVE equ_fixpoint(_, _, _)
equ_fixpoint(defs, symbols, labels) ==
    IF defs = <<>> THEN [k |-> "ok", symbols |-> symbols, pending |-> <<>>, sweeps |-> 0]
    ELSE LET again(f) == [f EXCEPT !.sweeps = @ + 1]
             after(p) ==
                 IF p.k # "ok"
                 THEN [k |-> p.k, symbols |-> p.symbols, pending |-> p.remaining,
                       sweeps |-> 1]
                 ELSE IF ~p.progress /\ p.remaining # <<>>
                 THEN [k |-> "stuck", symbols |-> p.symbols, pending |-> p.remaining,
                       sweeps |-> 1]
                 ELSE again(equ_fixpoint(p.remaining, p.symbols, labels))
         IN  after(equ_sweep(defs, 1, symbols, labels, <<>>, FALSE))

(* labels are still empty here; "stuck" leaves the rest in _pending_equs *)
preprocess_equ_directives(code) ==
    LET result(f) == [k |-> IF f.k = "stuck" THEN "ok" ELSE f.k, line |-> 0,
                      symbols |-> f.symbols, pending |-> f.pending]
    IN  result(equ_fixpoint(collect_equ(code, 1), <<>>, <<>>))

resolve_pending_equs(pending, symbols, labels) ==
    LET result(f) == [k |-> IF f.k = "stuck" THEN "SyntaxError" ELSE f.k, line |-> 0,
                      symbols |-> f.symbols, pending |-> f.pending]
    IN  IF pending = <<>> THEN [k |-> "ok", line |-> 0, symbols |-> symbols, pending |-> <<>>]
        ELSE result(equ_fixpoint(pending, symbols, labels))

(***************************************************************************)
(* First pass: labels, addresses, source line maps.                        *)
(***************************************************************************)
valid_opcodes ==
    {"MVI", "MOV", "LXI", "LDA", "STA", "ADD", "ADI", "SUB", "INR", "DCR",
     "JMP", "JZ", "JNZ", "JC", "JNC", "JP", "JM", "JPE", "JPO", "HLT", "INX",
     "PUSH", "POP", "CALL", "RET", "CPI", "DAD", "XCHG", "DS", "ORG", "END",
     "EQU", "LDAX", "STAX", "LHLD", "SHLD", "PCHL", "SPHL", "XTHL", "ANA",
     "ANI", "ORA", "ORI", "XRA", "XRI", "CMA", "CMC", "STC", "RLC", "RRC",
     "RAL", "RAR", "ADC", "ACI", "SBB", "SBI", "DAA", "DCX", "CC", "CNC",
     "CZ", "CNZ", "CP", "CM", "CPE", "CPO", "RC", "RNC", "RZ", "RNZ", "RP",
     "RM", "RPE", "RPO", "RST", "CMP", "NOP", "SUI", "IN", "OUT", "EI", "DI",
     "RIM", "SIM"}

(* the text of a one-lexeme string that is a name, "?" for anything else *)
name_of(str) == IF Len(str) = 1 /\ str[1].d = <<>> THEN str[1].s ELSE "?"

JumpOps == {"JMP", "JZ", "JNZ", "JC", "JNC", "JP", "JM", "JPE", "JPO"}
CallOps == {"CC", "CNC", "CZ", "CNZ", "CP", "CM", "CPE", "CPO"}
RetOps == {"RC", "RNC", "RZ", "RNZ", "RP", "RM", "RPE", "RPO"}

(* the if/elif chain of lines 543-649: how far the first pass advances *)
first_pass_size(instruction) ==
    CASE instruction \in {"MVI", "ADI", "CPI"} -> 2
      [] instruction \in {"LXI", "LDA", "STA", "CALL"} \cup JumpOps -> 3
      [] instruction \in {"MOV", "ADD", "SUB", "INR", "DCR", "HLT", "INX", "DAD",
                          "XCHG", "PUSH", "POP", "RET"} -> 1
      [] instruction \in {"LDAX", "STAX", "PCHL", "SPHL", "XTHL"} -> 1
      [] instruction \in {"LHLD", "SHLD"} -> 3
      [] instruction \in {"ANA", "ORA", "XRA"} -> 1
      [] instruction \in {"ANI", "ORI", "XRI"} -> 2
      [] instruction \in {"CMA", "CMC", "STC", "RLC", "RRC", "RAL", "RAR"} -> 1
      [] instruction \in {"ADC", "SBB"} -> 1
      [] instruction \in {"ACI", "SBI"} -> 2
      [] instruction \in {"DAA", "DCX"} -> 1
      [] instruction \in CallOps -> 3
      [] instruction \in RetOps -> 1
      [] instruction \in {"RST", "CMP", "NOP"} -> 1
      [] instruction = "SUI" -> 2
      [] instruction \in {"IN", "OUT"} -> 2
      [] instruction \in {"EI", "DI", "RIM", "SIM"} -> 1
      [] OTHER -> 0

(* DS size: a symbol, else an expression, else a numeral (both passes) *)
ds_size(size_expr, symbols, labels) ==
    LET or_number(e) == IF e.k = "None" THEN asm_parse_number(size_expr) ELSE e
    IN  IF size_expr \in DOMAIN symbols THEN Ok(symbols[size_expr])
        ELSE or_number(asm_evaluate_expression(size_expr, symbols, labels))

(* the result of one line of a pass: k is "ok", "stop" (END) or an exception *)
Line(kind, line_num, st) == [k |-> kind, line |-> line_num, st |-> st]

(* the first pass recording a label whether or not it is already there *)
duplicate_label_accepted(label, labels) == FALSE

(* if label: if label in output.labels: raise SyntaxError *)
duplicate_label(label, labels) == label # <<>> /\ label \in DOMAIN labels

first_pass_line(st, line_num, raw, symbols) ==
    LET line == remove_comment(raw)
        parts0 == split(line)
        has_colon == contains(parts0[1], ":")
        separate == endswith(parts0[1], ":")
        label_parts == split_on(parts0[1], ":", <<>>)
        bad_label == has_colon /\ ~separate /\ Len(label_parts) # 2
        label == IF ~has_colon THEN <<>>
                 ELSE IF separate THEN SubSeq(parts0[1], 1, Len(parts0[1]) - 1)
                 ELSE label_parts[1]
        parts == IF has_colon /\ ~separate
                 THEN <<label_parts[2]>> \o Tail(parts0) ELSE parts0
        duplicate == duplicate_label(label, st.labels)
        st1 == IF label # <<>>
               THEN [st EXCEPT !.labels = (label :> st.address) @@ st.labels] ELSE st
        instruction0 == IF ~endswith(parts[1], ":") THEN parts[1] ELSE parts[2]
        instr_parts == split_on(instruction0, ":", <<>>)
        known == name_of(instruction0) \in valid_opcodes
        fused == ~known /\ contains(instruction0, ":") /\ Len(instr_parts) = 2
                 /\ name_of(instr_parts[2]) \in valid_opcodes
        instruction == IF known THEN name_of(instruction0)
                       ELSE IF fused THEN name_of(instr_parts[2]) ELSE "?"
        size_index == IF endswith(parts[1], ":") THEN 3 ELSE 2
        size_expr == strip(split_on(join(SubSeq(parts, size_index, Len(parts))),
                                    ";", <<>>)[1], Space)
        origin(s1, org) ==
            IF org.k # "ok" THEN Line("SyntaxError", line_num, s1)
            ELSE Line("ok", line_num,
                      [s1 EXCEPT !.address = org.v,
                                 !.starting_address = IF s1.first_org_seen THEN @ ELSE org.v,
                                 !.first_org_seen = TRUE])
        reserve(s1, size) ==
            IF size.k = "ValueError" THEN Line("SyntaxError", line_num, s1)
            ELSE IF size.k # "ok" THEN Line(size.k, 0, s1)
            ELSE Line("ok", line_num,
                      [s1 EXCEPT !.data_memory_range =
                                     @ \cup {s1.address + i : i \in 0..(size.v - 1)},
                                 !.address = @ + size.v])
        place(s1, n) ==
            Line("ok", line_num,
                 [s1 EXCEPT !.line_to_address_map = (line_num :> s1.address) @@ @,
                            !.address_to_line_map = (s1.address :> line_num) @@ @,
                            !.address = @ + n])
        statement(s1, words, op) ==
            IF op = "?" THEN Line("SyntaxError", line_num, s1)
            ELSE IF op = "ORG"
            THEN (IF Len(words) < 2 THEN Line("SyntaxError", line_num, s1)
                  ELSE origin(s1, asm_parse_number(words[2])))
            ELSE IF op = "DS"
            THEN (IF Len(words) < size_index THEN Line("SyntaxError", line_num, s1)
                  ELSE reserve(s1, ds_size(size_expr, symbols, s1.labels)))
            ELSE IF op = "END" THEN Line("stop", line_num, s1)
            ELSE IF op = "EQU" THEN Line("ok", line_num, s1)
            ELSE place(s1, first_pass_size(op))
    IN  IF line = <<>> THEN Line("ok", line_num, st)
        ELSE IF bad_label \/ duplicate THEN Line("SyntaxError", line_num, st)
        ELSE IF Len(parts) = 1 /\ endswith(parts[1], ":") THEN Line("ok", line_num, st1)
        ELSE statement(st1, parts, instruction)

RECURSIVE first_pass_loop(_, _, _, _)
first_pass_loop(code, line_num, st, symbols) ==
    IF line_num > Len(code) THEN Line("ok", 0, st)
    ELSE LET next(r) ==
                 IF r.k = "ok" THEN first_pass_loop(code, line_num + 1, r.st, symbols)
                 ELSE IF r.k = "stop" THEN Line("ok", 0, r.st)
                 ELSE r
         IN  next(first_pass_line(st, line_num, code[line_num], symbols))

first_pass(code, symbols) ==
    first_pass_loop(code, 1,
                    [address |-> 0, first_org_seen |-> FALSE, labels |-> <<>>,
                     data_memory_range |-> {}, line_to_address_map |-> <<>>,
                     address_to_line_map |-> <<>>, starting_address |-> 0],
                    symbols)

(***************************************************************************)
(* Memory: bytearray(0x10000), kept as the function of its non-zero bytes. *)
(***************************************************************************)
MemSize == 65536
PortCount == 256

mem_read(mem, a) == IF a \in DOMAIN mem THEN mem[a] ELSE 0

mem_write(mem, a, byte) ==
    IF byte = 0 THEN [x \in (DOMAIN mem) \ {a} |-> mem[x]]
    ELSE [x \in (DOMAIN mem) \cup {a} |-> IF x = a THEN byte ELSE mem[x]]

(* Python sequence indexing: negative indices count from the end *)
py_index(i, n) ==
    IF 0 <= i /\ i < n THEN Ok(i)
    ELSE IF 0 - n <= i /\ i < 0 THEN Ok(i + n)
    ELSE Raise("IndexError")

(***************************************************************************)
(* Second pass: code generation.                                           *)
(***************************************************************************)
valid_registers == <<"B", "C", "D", "E", "H", "L", "M", "A">>
valid_register_pairs == <<"B", "D", "H", "SP">>

RECURSIVE list_index(_, _, _)
list_index(list, x, i) ==
    IF i > Len(list) THEN -1
    ELSE IF list[i] = x THEN i - 1 ELSE list_index(list, x, i + 1)

(* register codes counted from one *)
get_reg_code_from_one(reg) ==
    LET i == list_index(valid_registers, name_of(reg), 1)
    IN  IF i < 0 THEN Raise("ValueError") ELSE Ok(i + 1)

asm_get_reg_code(reg) ==
    LET i == list_index(valid_registers, name_of(reg), 1)
    IN  IF i < 0 THEN Raise("ValueError") ELSE Ok(i)

asm_get_rp_code(reg_pair) ==
    LET i == list_index(valid_register_pairs, name_of(reg_pair), 1)
    IN  IF i < 0 THEN Raise("ValueError") ELSE Ok(i)

join_expression_tokens(tokens) ==
    LET value_start == IF Len(tokens) > 2 /\ endswith(tokens[2], ",") THEN 3 ELSE 2
        has_expression == \E i \in (value_start + 1)..Len(tokens) :
                              name_of(tokens[i]) \in Operators
    IN  IF Len(tokens) <= 2 THEN tokens
        ELSE IF has_expression
        THEN SubSeq(tokens, 1, value_start - 1)
             \o <<join(SubSeq(tokens, value_start, Len(tokens)))>>
        ELSE tokens

jump_opcodes(op) ==
    CASE op = "JMP" -> 195 [] op = "JZ" -> 202 [] op = "JNZ" -> 194
      [] op = "JC" -> 218 [] op = "JNC" -> 210 [] op = "JP" -> 242
      [] op = "JM" -> 250 [] op = "JPE" -> 234 [] op = "JPO" -> 226

call_opcodes(op) ==
    CASE op = "CC" -> 220 [] op = "CNC" -> 212 [] op = "CZ" -> 204
      [] op = "CNZ" -> 196 [] op = "CP" -> 244 [] op = "CM" -> 252
      [] op = "CPE" -> 236 [] op = "CPO" -> 228

ret_opcodes(op) ==
    CASE op = "RC" -> 216 [] op = "RNC" -> 208 [] op = "RZ" -> 200
      [] op = "RNZ" -> 192 [] op = "RP" -> 240 [] op = "RM" -> 248
      [] op = "RPE" -> 232 [] op = "RPO" -> 224

(* opcode byte of the instructions that take one 8-bit value in tokens[1] *)
imm8_opcode(op) ==
    CASE op = "ADI" -> 198 [] op = "CPI" -> 254 [] op = "ANI" -> 230
      [] op = "ORI" -> 246 [] op = "XRI" -> 238 [] op = "ACI" -> 206
      [] op = "SBI" -> 222 [] op = "SUI" -> 214 [] op = "IN" -> 219
      [] op = "OUT" -> 211

(* opcode byte of the instructions that take one 16-bit value in tokens[1] *)
addr16_opcode(op) ==
    CASE op = "LDA" -> 58 [] op = "STA" -> 50 [] op = "LHLD" -> 42
      [] op = "SHLD" -> 34 [] op = "CALL" -> 205
      [] op \in JumpOps -> jump_opcodes(op)
      [] op \in CallOps -> call_opcodes(op)

(* instructions without operand *)
fixed_opcode(op) ==
    CASE op = "HLT" -> 118 [] op = "RET" -> 201 [] op = "XCHG" -> 235
      [] op = "PCHL" -> 233 [] op = "SPHL" -> 249 [] op = "XTHL" -> 227
      [] op = "CMA" -> 47 [] op = "CMC" -> 63 [] op = "STC" -> 55
      [] op = "RLC" -> 7 [] op = "RRC" -> 15 [] op = "RAL" -> 23
      [] op = "RAR" -> 31 [] op = "DAA" -> 39 [] op = "NOP" -> 0
      [] op = "EI" -> 251 [] op = "DI" -> 243 [] op = "RIM" -> 32
      [] op = "SIM" -> 48
      [] op \in RetOps -> ret_opcodes(op)

Imm8Ops == {"ADI", "CPI", "ANI", "ORI", "XRI", "ACI", "SBI", "SUI", "IN", "OUT"}
Addr16Ops == {"LDA", "STA", "LHLD", "SHLD", "CALL"} \cup JumpOps \cup CallOps
FixedOps == {"HLT", "RET", "XCHG", "PCHL", "SPHL", "XTHL", "CMA", "CMC", "STC",
             "RLC", "RRC", "RAL", "RAR", "DAA", "NOP", "EI", "DI", "RIM", "SIM"}
            \cup RetOps

(* register instructions whose code is looked up inside try/except *)
reg_try_opcode(op, code) ==
    CASE op = "ADD" -> 128 + code [] op = "SUB" -> 144 + code
      [] op = "INR" -> 4 + code * 8 [] op = "DCR" -> 5 + code * 8

(* register instructions that test valid_registers first: base | code *)
reg_chk_opcode(op, code) ==
    CASE op = "ANA" -> 160 + code [] op = "ORA" -> 176 + code
      [] op = "XRA" -> 168 + code [] op = "ADC" -> 136 + code
      [] op = "SBB" -> 152 + code [] op = "CMP" -> 184 + code

rp_opcode(op, code) ==
    CASE op = "INX" -> 3 + code * 16 [] op = "DAD" -> 9 + code * 16
      [] op = "DCX" -> 11 + code * 16 [] op = "PUSH" -> 197 + code * 16
      [] op = "POP" -> 193 + code * 16 [] op = "LXI" -> 1 + code * 16

(* the encoding of one instruction: k is "ok" or the exception, line is    *)
(* the line number the message carries (0: none), bytes what is stored     *)
Enc(kind, line_num, bytes) == [k |-> kind, line |-> line_num, bytes |-> bytes]

(* except ValueError as e: raise SyntaxError(f"Line {line_num}: ...") *)
Caught(r, line_num) ==
    IF r.k = "ValueError" THEN Enc("SyntaxError", line_num, <<>>)
    ELSE Enc(r.k, 0, <<>>)

encode(opcode, tokens, line_num, symbols, labels) ==
    LET n == Len(tokens)
        t1 == strip(tokens[2], {",", ";"})
        t2 == strip(tokens[3], {",", ";"})
        first == strip(tokens[2], {","})
        lo(value) == value.v % 256
        hi(value) == (value.v % 65536) \div 256
        (* instructions with a value operand: the value is resolved first *)
        with_reg(value, reg) ==
            IF reg.k # "ok" THEN Caught(reg, line_num)
            ELSE Enc("ok", 0, <<6 + reg.v * 8, lo(value)>>)
        with_rp(value, rp) ==
            IF rp.k # "ok" THEN Caught(rp, line_num)
            ELSE Enc("ok", 0, <<rp_opcode(opcode, rp.v), lo(value), hi(value)>>)
        with_value(value) ==
            IF value.k # "ok" THEN Caught(value, line_num)
            ELSE IF opcode = "MVI" THEN with_reg(value, asm_get_reg_code(first))
            ELSE IF opcode = "LXI" THEN with_rp(value, asm_get_rp_code(first))
            ELSE IF opcode \in Addr16Ops
            THEN Enc("ok", 0, <<addr16_opcode(opcode), lo(value), hi(value)>>)
            ELSE Enc("ok", 0, <<imm8_opcode(opcode), lo(value)>>)
        mov_src(reg, src) ==
            IF src.k # "ok" THEN Caught(src, line_num)
            ELSE Enc("ok", 0, <<64 + reg.v * 8 + src.v>>)
        mov(reg) ==
            IF reg.k # "ok" THEN Caught(reg, line_num)
            ELSE mov_src(reg, asm_get_reg_code(t2))
        (* register in a try block (ValueError caught) or checked by hand *)
        by_reg(reg) ==
            IF opcode \in {"ADD", "SUB", "INR", "DCR"}
            THEN (IF reg.k # "ok" THEN Caught(reg, line_num)
                  ELSE Enc("ok", 0, <<reg_try_opcode(opcode, reg.v)>>))
            ELSE (IF reg.k # "ok" THEN Enc("SyntaxError", line_num, <<>>)
                  ELSE Enc("ok", 0, <<reg_chk_opcode(opcode, reg.v)>>))
        by_rp(rp) ==
            IF rp.k # "ok" THEN Caught(rp, line_num)
            ELSE Enc("ok", 0, <<rp_opcode(opcode, rp.v)>>)
        rst(rst_num) ==
            IF rst_num.k # "ok" THEN Enc(rst_num.k, 0, <<>>)
            ELSE IF rst_num.v < 0 \/ rst_num.v > 7 THEN Enc("SyntaxError", line_num, <<>>)
            ELSE Enc("ok", 0, <<199 + rst_num.v * 8>>)
    IN  CASE opcode \in {"MVI", "LXI"} ->
               IF n < 3 THEN Enc("IndexError", 0, <<>>)
               ELSE with_value(asm_resolve_symbol_or_number(t2, symbols, labels))
          [] opcode \in Addr16Ops \cup Imm8Ops ->
               IF n < 2 THEN Enc("IndexError", 0, <<>>)
               ELSE with_value(asm_resolve_symbol_or_number(t1, symbols, labels))
          [] opcode = "MOV" ->
               IF n < 3 THEN Enc("IndexError", 0, <<>>)
               ELSE IF name_of(first) = "M" /\ name_of(t2) = "M"
               THEN Enc("SyntaxError", line_num, <<>>)
               ELSE mov(asm_get_reg_code(first))
          [] opcode \in {"ADD", "SUB", "INR", "DCR", "ANA", "ORA", "XRA", "ADC", "SBB",
                         "CMP"} ->
               IF n < 2 THEN Enc("IndexError", 0, <<>>) ELSE by_reg(asm_get_reg_code(t1))
          [] opcode \in {"INX", "DAD", "DCX"} ->
               IF n < 2 THEN Enc("IndexError", 0, <<>>) ELSE by_rp(asm_get_rp_code(t1))
          [] opcode \in {"PUSH", "POP"} ->
               IF n < 2 THEN Enc("IndexError", 0, <<>>)
               ELSE IF name_of(t1) = "PSW"
               THEN Enc("ok", 0, <<IF opcode = "PUSH" THEN 245 ELSE 241>>)
               ELSE by_rp(asm_get_rp_code(t1))
          [] opcode \in {"LDAX", "STAX"} ->
               IF n < 2 THEN Enc("IndexError", 0, <<>>)
               ELSE IF name_of(t1) = "B"
               THEN Enc("ok", 0, <<IF opcode = "LDAX" THEN 10 ELSE 2>>)
               ELSE IF name_of(t1) = "D"
               THEN Enc("ok", 0, <<IF opcode = "LDAX" THEN 26 ELSE 18>>)
               ELSE Enc("SyntaxError", line_num, <<>>)
          [] opcode = "RST" ->
               IF n < 2 THEN Enc("IndexError", 0, <<>>) ELSE rst(asm_parse_number(t1))
          [] opcode \in FixedOps -> Enc("ok", 0, <<fixed_opcode(opcode)>>)
          [] OTHER -> Enc("ok", 0, <<>>)

(* output.memory[address + i] = byte, in order; IndexError past the end *)
RECURSIVE store_bytes(_, _, _, _)
store_bytes(mem, address, bytes, i) ==
    IF i > Len(bytes) THEN [k |-> "ok", memory |-> mem]
    ELSE LET idx == py_index(address + i - 1, MemSize)
         IN  IF idx.k # "ok" THEN [k |-> idx.k, memory |-> mem]
             ELSE store_bytes(mem_write(mem, idx.v, bytes[i]), address, bytes, i + 1)

(* only the opcode byte is recorded *)
instruction_range_opcode_only(address, bytes) == {address}

(* output.program_memory_range.add(address), then .add(address + i) for    *)
(* each operand byte of the instruction                                    *)
instruction_range(address, bytes) ==
    {address} \cup {address + i : i \in 1..(Len(bytes) - 1)}

second_pass_line(st, line_num, raw, symbols, labels) ==
    LET line == remove_comment(raw)
        parts == split(line)
        label_parts == split_on(parts[1], ":", <<>>)
        tokens0 == IF contains(parts[1], ":")
                   THEN (IF endswith(parts[1], ":") THEN Tail(parts)
                         ELSE <<label_parts[2]>> \o Tail(parts))
                   ELSE parts
        opcode == name_of(tokens0[1])
        tokens == join_expression_tokens(tokens0)
        size_index == IF endswith(parts[1], ":") THEN 3 ELSE 2
        size_expr == strip(split_on(join(SubSeq(parts, size_index, Len(parts))),
                                    ";", <<>>)[1], Space)
        origin(org) ==
            IF org.k # "ok" THEN Line(org.k, 0, st)
            ELSE Line("ok", line_num, [st EXCEPT !.address = org.v])
        reserve(size) ==
            IF size.k = "ValueError" THEN Line("SyntaxError", line_num, st)
            ELSE IF size.k # "ok" THEN Line(size.k, 0, st)
            ELSE Line("ok", line_num,
                      [st EXCEPT !.data_memory_range =
                                     @ \cup {st.address + i : i \in 0..(size.v - 1)},
                                 !.address = @ + size.v])
        place(words, bytes, stored) ==
            IF stored.k # "ok" THEN Line(stored.k, 0, st)
            ELSE Line("ok", line_num,
                      [st EXCEPT !.parsed_program = Append(@, <<st.address, words>>),
                                 !.program_memory_range =
                                     @ \cup instruction_range(st.address, bytes),
                                 !.memory = stored.memory,
                                 !.address = @ + Len(bytes)])
        generate(words, enc) ==
            IF enc.k # "ok" THEN Line(enc.k, enc.line, st)
            ELSE place(words, enc.bytes, store_bytes(st.memory, st.address, enc.bytes, 1))
        statement(words, op) ==
            IF op = "EQU" THEN Line("ok", line_num, st)
            ELSE IF op = "ORG"
            THEN (IF Len(words) < 2 THEN Line("IndexError", 0, st)
                  ELSE origin(asm_parse_number(words[2])))
            ELSE IF op = "DS"
            THEN (IF Len(parts) < size_index THEN Line("SyntaxError", line_num, st)
                  ELSE reserve(ds_size(size_expr, symbols, labels)))
            ELSE IF op = "END" THEN Line("stop", line_num, st)
            ELSE generate(words, encode(op, words, line_num, symbols, labels))
    IN  IF line = <<>> \/ parts = <<>> THEN Line("ok", line_num, st)
        ELSE IF Len(parts) = 1 /\ endswith(parts[1], ":") THEN Line("ok", line_num, st)
        ELSE IF contains(parts[1], ":") /\ ~endswith(parts[1], ":") /\ Len(label_parts) # 2
        THEN Line("ok", line_num, st)
        ELSE statement(tokens, opcode)

RECURSIVE second_pass_loop(_, _, _, _, _)
second_pass_loop(code, line_num, st, symbols, labels) ==
    IF line_num > Len(code) THEN Line("ok", 0, st)
    ELSE LET next(r) ==
                 IF r.k = "ok" THEN second_pass_loop(code, line_num + 1, r.st, symbols, labels)
                 ELSE IF r.k = "stop" THEN Line("ok", 0, r.st)
                 ELSE r
         IN  next(second_pass_line(st, line_num, code[line_num], symbols, labels))

second_pass(code, data_memory_range, symbols, labels) ==
    second_pass_loop(code, 1,
                     [address |-> 0, memory |-> <<>>, parsed_program |-> <<>>,
                      program_memory_range |-> {},
                      data_memory_range |-> data_memory_range],
                     symbols, labels)

(***************************************************************************)
(* Assembler8085.assemble: k is "ok" or the exception that leaves the call *)
(* (then no output is returned); line is the line number in its message.   *)
(***************************************************************************)
NoOutput ==
    [memory |-> <<>>, parsed_program |-> <<>>, line_to_address_map |-> <<>>,
     address_to_line_map |-> <<>>, labels |-> <<>>, symbols |-> <<>>,
     program_end_address |-> 0, program_memory_range |-> {},
     data_memory_range |-> {}, starting_address |-> 0]

Failed(kind, line_num) == [k |-> kind, line |-> line_num, output |-> NoOutput]

assemble(code0) ==
    LET output(p1, pend, p2) ==
            IF p2.k # "ok" THEN Failed(p2.k, p2.line)
            ELSE [k |-> "ok", line |-> 0,
                  output |-> [memory |-> p2.st.memory,
                              parsed_program |-> p2.st.parsed_program,
                              line_to_address_map |-> p1.st.line_to_address_map,
                              address_to_line_map |-> p1.st.address_to_line_map,
                              labels |-> p1.st.labels,
                              symbols |-> pend.symbols,
                              program_end_address |->
                                  IF p2.st.parsed_program # <<>> THEN p2.st.address ELSE 0,
                              program_memory_range |-> p2.st.program_memory_range,
                              data_memory_range |-> p2.st.data_memory_range,
                              starting_address |-> p1.st.starting_address]]
        generate(code, p1, pend) ==
            IF pend.k # "ok" THEN Failed(pend.k, pend.line)
            ELSE output(p1, pend, second_pass(code, p1.st.data_memory_range, pend.symbols,
                                              p1.st.labels))
        retry_equ(code, pre, p1) ==
            IF p1.k # "ok" THEN Failed(p1.k, p1.line)
            ELSE generate(code, p1,
                          resolve_pending_equs(pre.pending, pre.symbols, p1.st.labels))
        label_pass(code, pre) ==
            IF pre.k # "ok" THEN Failed(pre.k, pre.line)
            ELSE retry_equ(code, pre, first_pass(code, pre.symbols))
        equ_pass(code) == label_pass(code, preprocess_equ_directives(code))
    IN  equ_pass([i \in 1..Len(code0) |-> upper(code0[i])])

(***************************************************************************)
(* Processor8085: operand parsing.                                         *)
(***************************************************************************)
CpuOperators == {"+", "-", "*", "/"}

cpu_resolve_token(token, symbols, labels) ==
    LET str == strip(token, Space)
        n == py_int(str)
    IN  IF str \in DOMAIN symbols THEN Ok(symbols[str])
        ELSE IF str \in DOMAIN labels THEN Ok(labels[str])
        ELSE IF n.k = "ok" THEN n ELSE None

cpu_apply_operator(op, result, operand) ==
    CASE op = "+" -> Ok(result + operand)
      [] op = "-" -> Ok(result - operand)
      [] op = "*" -> Ok(result * operand)
      [] op = "/" -> IF operand = 0 THEN Raise("ZeroDivisionError")
                     ELSE IF operand > 0 THEN Ok(result \div operand)
                     ELSE Ok((0 - result) \div (0 - operand))
      [] OTHER -> Ok(result)

RECURSIVE cpu_eval_loop(_, _, _, _, _)
cpu_eval_loop(tokens, i, result, symbols, labels) ==
    IF i > Len(tokens) \/ i + 1 > Len(tokens) THEN Ok(result)
    ELSE LET operand == cpu_resolve_token(tokens[i + 1], symbols, labels)
             r == cpu_apply_operator(name_of(tokens[i]), result, operand.v)
         IN  IF operand.k # "ok" THEN None
             ELSE IF r.k # "ok" THEN r
             ELSE cpu_eval_loop(tokens, i + 2, r.v, symbols, labels)

cpu_evaluate_expression(expr, symbols, labels) ==
    LET tokens == tokenize(expr, <<>>, CpuOperators)
        first == cpu_resolve_token(tokens[1], symbols, labels)
    IN  IF Len(tokens) < 3 THEN None
        ELSE IF first.k # "ok" THEN None
        ELSE cpu_eval_loop(tokens, 2, first.v, symbols, labels)

cpu_parse_number(value_str, symbols, labels) ==
    LET str == strip(value_str, Space)
        e == IF has_operator(str, CpuOperators)
             THEN cpu_evaluate_expression(str, symbols, labels) ELSE None
    IN  IF str \in DOMAIN symbols THEN Ok(symbols[str])
        ELSE IF str \in DOMAIN labels THEN Ok(labels[str])
        ELSE IF e.k = "None" THEN py_int(str)
        ELSE e

(***************************************************************************)
(* Processor8085: registers, flags and the helpers of step().  A machine   *)
(* m is the record [registers, flags, memory, io_ports].                   *)
(***************************************************************************)
RegisterNames == {"A", "B", "C", "D", "E", "H", "L", "SP", "PC", "Inc/Dec Latch"}

InitRegisters ==
    [r \in RegisterNames |-> IF r = "SP" THEN 65535 ELSE 0]

InitFlags == [S |-> 0, Z |-> 0, AC |-> 0, P |-> 0, C |-> 0]

get_hl_addr(m) == m.registers["H"] * 256 + m.registers["L"]
get_bc_addr(m) == m.registers["B"] * 256 + m.registers["C"]
get_de_addr(m) == m.registers["D"] * 256 + m.registers["E"]

get_flags_byte(flags) ==
    flags.S * 128 + flags.Z * 64 + flags.AC * 16 + flags.P * 4 + 2 + flags.C

get_psw(m) == m.registers["A"] * 256 + get_flags_byte(m.flags)

RECURSIVE bit_count(_)
bit_count(x) == IF x = 0 THEN 0 ELSE (x % 2) + bit_count(x \div 2)

bit(x, i) == (x \div Pow2(i)) % 2

(* update_flags(result, check_carry, carry_value, check_ac, ac_value) *)
update_flags(flags, result, check_carry, carry_value, check_ac, ac_value) ==
    [S |-> IF bit(result, 7) = 1 THEN 1 ELSE 0,
     Z |-> IF result % 256 = 0 THEN 1 ELSE 0,
     AC |-> IF check_ac THEN ac_value ELSE flags.AC,
     P |-> IF bit_count(result % 256) % 2 = 0 THEN 1 ELSE 0,
     C |-> IF check_carry THEN carry_value ELSE flags.C]

B2N(b) == IF b THEN 1 ELSE 0

set_reg(m, r, val) ==
    [m EXCEPT !.registers = IF r \in DOMAIN @ THEN [@ EXCEPT ![r] = val]
                            ELSE (r :> val) @@ @]

set_pair(m, high, low, val) ==
    [m EXCEPT !.registers = [@ EXCEPT ![high] = (val \div 256) % 256,
                                      ![low] = val % 256]]

(* PC advanced by 1 whatever the length of the instruction *)
advance_by_one(m, n) == [m EXCEPT !.registers["PC"] = @ + 1]

advance(m, n) == [m EXCEPT !.registers["PC"] = @ + n]

(* self.memory[addr] with Python's index rule *)
load_byte(m, addr) ==
    LET idx == py_index(addr, MemSize)
    IN  IF idx.k = "ok" THEN Ok(mem_read(m.memory, idx.v)) ELSE idx

store_byte(m, addr, byte) ==
    LET idx == py_index(addr, MemSize)
    IN  IF idx.k = "ok"
        THEN [k |-> "ok", m |-> [m EXCEPT !.memory = mem_write(@, idx.v, byte)]]
        ELSE [k |-> idx.k, m |-> m]

(* memory[HL] if reg == "M" else registers[reg] *)
read_operand(m, reg) ==
    IF reg = "M" THEN Ok(mem_read(m.memory, get_hl_addr(m)))
    ELSE IF reg \in DOMAIN m.registers THEN Ok(m.registers[reg])
    ELSE Raise("KeyError")

(* what one step() does: status, error message, machine afterwards *)
Res(status, msg, m) == [status |-> status, error |-> msg, halted |-> status = "HALT", m |-> m]
Done(m) == Res("OK", "", m)

(* a failure that has already moved PC past the instruction *)
fail_after_advance(msg, m) == Res("ERROR", msg, [m EXCEPT !.registers["PC"] = @ + 1])

Fail(msg, m) == Res("ERROR", msg, m)

(* high byte at SP-1, low byte at SP-2, then SP := SP-2 *)
push_word_swapped(m, high, low) ==
    LET addr_high == (m.registers["SP"] - 1) % 65536
        addr_low == (m.registers["SP"] - 2) % 65536
    IN  [m EXCEPT !.memory = mem_write(mem_write(@, addr_high, low), addr_low, high),
                  !.registers["SP"] = addr_low]

push_word(m, high, low) ==
    LET addr_high == (m.registers["SP"] - 1) % 65536
        addr_low == (m.registers["SP"] - 2) % 65536
    IN  [m EXCEPT !.memory = mem_write(mem_write(@, addr_high, high), addr_low, low),
                  !.registers["SP"] = addr_low]

(* pop_word reading the high byte first *)
pop_word_high_first(m) ==
    LET sp1 == (m.registers["SP"] + 1) % 65536
    IN  [low |-> mem_read(m.memory, sp1),
         high |-> mem_read(m.memory, m.registers["SP"]),
         m |-> [m EXCEPT !.registers["SP"] = (sp1 + 1) % 65536]]

(* low byte at SP, high byte at SP+1, then SP := SP+2 *)
pop_word(m) ==
    LET sp1 == (m.registers["SP"] + 1) % 65536
    IN  [low |-> mem_read(m.memory, m.registers["SP"]),
         high |-> mem_read(m.memory, sp1),
         m |-> [m EXCEPT !.registers["SP"] = (sp1 + 1) % 65536]]

(* the conditions with P (plus) and M (minus) reading the parity flag *)
condition_plus_as_parity(suffix, flags) ==
    CASE suffix = "Z" -> flags.Z = 1
      [] suffix = "NZ" -> flags.Z = 0
      [] suffix = "C" -> flags.C = 1
      [] suffix = "NC" -> flags.C = 0
      [] suffix = "P" -> flags.P = 1
      [] suffix = "M" -> flags.P = 0
      [] suffix = "PE" -> flags.P = 1
      [] suffix = "PO" -> flags.P = 0

condition(suffix, flags) ==
    CASE suffix = "Z" -> flags.Z = 1
      [] suffix = "NZ" -> flags.Z = 0
      [] suffix = "C" -> flags.C = 1
      [] suffix = "NC" -> flags.C = 0
      [] suffix = "P" -> flags.S = 0
      [] suffix = "M" -> flags.S = 1
      [] suffix = "PE" -> flags.P = 1
      [] suffix = "PO" -> flags.P = 0

jump_condition(opcode, flags) ==
    CASE opcode = "JMP" -> TRUE
      [] opcode = "JZ" -> condition("Z", flags) [] opcode = "JNZ" -> condition("NZ", flags)
      [] opcode = "JC" -> condition("C", flags) [] opcode = "JNC" -> condition("NC", flags)
      [] opcode = "JP" -> condition("P", flags) [] opcode = "JM" -> condition("M", flags)
      [] opcode = "JPE" -> condition("PE", flags) [] opcode = "JPO" -> condition("PO", flags)

call_condition(opcode, flags) ==
    CASE opcode = "CC" -> condition("C", flags) [] opcode = "CNC" -> condition("NC", flags)
      [] opcode = "CZ" -> condition("Z", flags) [] opcode = "CNZ" -> condition("NZ", flags)
      [] opcode = "CP" -> condition("P", flags) [] opcode = "CM" -> condition("M", flags)
      [] opcode = "CPE" -> condition("PE", flags) [] opcode = "CPO" -> condition("PO", flags)

return_condition(opcode, flags) ==
    CASE opcode = "RC" -> condition("C", flags) [] opcode = "RNC" -> condition("NC", flags)
      [] opcode = "RZ" -> condition("Z", flags) [] opcode = "RNZ" -> condition("NZ", flags)
      [] opcode = "RP" -> condition("P", flags) [] opcode = "RM" -> condition("M", flags)
      [] opcode = "RPE" -> condition("PE", flags) [] opcode = "RPO" -> condition("PO", flags)

(***************************************************************************)
(* The body of step() after the instruction at PC was found: the try block *)
(* of lines 166-1185.  An exception anywhere inside it is caught and       *)
(* becomes "Error executing <opcode>"; every exception the code can raise  *)
(* is raised before the instruction changes anything.                      *)
(***************************************************************************)
Caught_exc == "Error executing"

(* alu_add with the auxiliary carry computed without the carry-in *)
alu_add_half_without_carry(m, value, carry_in, n) ==
    LET a_value == m.registers["A"]
        ac == B2N((a_value % 16) + (value % 16) > 15)
        result == a_value + value + carry_in
        carry == B2N(result > 255)
        m1 == set_reg(m, "A", result % 256)
    IN  advance([m1 EXCEPT !.flags = update_flags(@, result % 256, TRUE, carry, TRUE, ac)], n)

(* A := (A + value + carry_in) & 0xFF with all five flags (ADD ADI ADC ACI) *)
alu_add(m, value, carry_in, n) ==
    LET a_value == m.registers["A"]
        ac == B2N((a_value % 16) + (value % 16) + carry_in > 15)
        result == a_value + value + carry_in
        carry == B2N(result > 255)
        m1 == set_reg(m, "A", result % 256)
    IN  advance([m1 EXCEPT !.flags = update_flags(@, result % 256, TRUE, carry, TRUE, ac)], n)

(* A - value - borrow: SUB SUI SBB SBI store the result, CMP CPI only flags *)
alu_sub(m, value, borrow, keep, n) ==
    LET a_value == m.registers["A"]
        ac == B2N((a_value % 16) < (value % 16) + borrow)
        result == a_value - value - borrow
        carry == B2N(result < 0)
        m1 == IF keep THEN set_reg(m, "A", result % 256) ELSE m
    IN  advance([m1 EXCEPT !.flags = update_flags(@, result % 256, TRUE, carry, TRUE, ac)], n)

(* ANA ANI (ac = 1), ORA ORI XRA XRI (ac = 0): C := 0 *)
alu_logic_keeping_carry(m, result, ac, n) ==
    LET m1 == set_reg(m, "A", result)
        f == update_flags(m.flags, result, FALSE, 0, FALSE, 0)
    IN  advance([m1 EXCEPT !.flags = [f EXCEPT !.AC = ac]], n)

alu_logic(m, result, ac, n) ==
    LET m1 == set_reg(m, "A", result)
        f == update_flags(m.flags, result, FALSE, 0, FALSE, 0)
    IN  advance([m1 EXCEPT !.flags = [f EXCEPT !.C = 0, !.AC = ac]], n)

(* INR / DCR on a register or on memory[HL] *)
inr_dcr(m, reg, delta) ==
    LET old_val == IF reg = "M" THEN mem_read(m.memory, get_hl_addr(m))
                   ELSE m.registers[reg]
        new_val == (old_val + delta) % 256
        ac == IF delta = 1 THEN B2N(old_val % 16 = 15)
              ELSE (IF old_val % 16 = 0 THEN 0 ELSE 1)
        m1 == IF reg = "M" THEN [m EXCEPT !.memory = mem_write(@, get_hl_addr(m), new_val)]
              ELSE set_reg(m, reg, new_val)
    IN  advance([m1 EXCEPT !.flags = update_flags(@, new_val, FALSE, 0, TRUE, ac)], 1)

(* INX / DCX *)
inx_dcx(m, reg_pair, delta) ==
    CASE reg_pair = "B" -> Done(advance(set_pair(m, "B", "C", (get_bc_addr(m) + delta) % 65536), 1))
      [] reg_pair = "D" -> Done(advance(set_pair(m, "D", "E", (get_de_addr(m) + delta) % 65536), 1))
      [] reg_pair = "H" -> Done(advance(set_pair(m, "H", "L", (get_hl_addr(m) + delta) % 65536), 1))
      [] reg_pair = "SP" -> Done(advance(set_reg(m, "SP", (m.registers["SP"] + delta) % 65536), 1))
      [] OTHER -> Fail("Invalid register pair", m)

daa(m) ==
    LET a0 == m.registers["A"]
        low_adjust == (a0 % 16) > 9 \/ m.flags.AC = 1
        a1 == IF low_adjust THEN a0 + 6 ELSE a0
        ac == IF low_adjust THEN B2N((a0 % 16) > (a1 % 16)) ELSE 0
        high == (a1 \div 16) % 16
        high_adjust == high > 9 \/ m.flags.C = 1 \/ (high >= 9 /\ (a1 % 16) > 9)
        a2 == IF high_adjust THEN a1 + 96 ELSE a1
        carry == B2N(high_adjust)
        m1 == set_reg(m, "A", a2 % 256)
    IN  advance([m1 EXCEPT !.flags = update_flags(@, a2 % 256, TRUE, carry, TRUE, ac)], 1)

push(m, reg_pair) ==
    CASE reg_pair = "PSW" ->
             Done(advance(push_word(m, (get_psw(m) \div 256) % 256, get_psw(m) % 256), 1))
      [] reg_pair = "B" -> Done(advance(push_word(m, m.registers["B"], m.registers["C"]), 1))
      [] reg_pair = "D" -> Done(advance(push_word(m, m.registers["D"], m.registers["E"]), 1))
      [] reg_pair = "H" -> Done(advance(push_word(m, m.registers["H"], m.registers["L"]), 1))
      [] OTHER -> Fail("Invalid register pair for PUSH", m)

pop(m, reg_pair) ==
    LET w == pop_word(m)
        fl == w.low
    IN  CASE reg_pair = "PSW" ->
                 Done(advance([set_reg(w.m, "A", w.high) EXCEPT
                                  !.flags = [S |-> bit(fl, 7), Z |-> bit(fl, 6),
                                             AC |-> bit(fl, 4), P |-> bit(fl, 2),
                                             C |-> bit(fl, 0)]], 1))
          [] reg_pair = "B" -> Done(advance(set_reg(set_reg(w.m, "C", w.low), "B", w.high), 1))
          [] reg_pair = "D" -> Done(advance(set_reg(set_reg(w.m, "E", w.low), "D", w.high), 1))
          [] reg_pair = "H" -> Done(advance(set_reg(set_reg(w.m, "L", w.low), "H", w.high), 1))
          [] OTHER -> Fail("Invalid register pair for POP", m)

(* CALL, taken conditional call, RST: push return_addr, PC := target *)
call_returning_to_call(m, return_addr, target) ==
    set_reg(push_word(m, ((return_addr - 3) \div 256) % 256, (return_addr - 3) % 256),
            "PC", target)

call(m, return_addr, target) ==
    set_reg(push_word(m, (return_addr \div 256) % 256, return_addr % 256), "PC", target)

(* RET, taken conditional return *)
ret(m) ==
    LET w == pop_word(m)
    IN  set_reg(w.m, "PC", (w.high * 256 + w.low) % 65536)

rotate(m, opcode) ==
    LET value == m.registers["A"]
        old_carry == m.flags.C
        out == IF opcode \in {"RLC", "RAL"} THEN bit(value, 7) ELSE bit(value, 0)
        a == CASE opcode = "RLC" -> (value * 2 + bit(value, 7)) % 256
               [] opcode = "RRC" -> (value \div 2) + bit(value, 0) * 128
               [] opcode = "RAL" -> (value * 2 + old_carry) % 256
               [] opcode = "RAR" -> (value \div 2) + old_carry * 128
    IN  advance([set_reg(m, "A", a) EXCEPT !.flags.C = out], 1)

(* HLT: self.halted = True; return "HALT" *)
(* MVI: value = self._parse_number(instruction[2]) & 0xFF *)
mvi_unmasked(m, reg, value) ==
    IF reg = "M"
    THEN Done(advance([m EXCEPT !.memory = mem_write(@, get_hl_addr(m), value)], 2))
    ELSE Done(advance(set_reg(m, reg, value), 2))

mvi(m, reg, value) ==
    IF reg = "M"
    THEN Done(advance([m EXCEPT !.memory = mem_write(@, get_hl_addr(m), value % 256)], 2))
    ELSE Done(advance(set_reg(m, reg, value % 256), 2))

halt_returning_ok(m) == [status |-> "OK", error |-> "", halted |-> TRUE, m |-> m]

halt(m) == Res("HALT", "", m)

execute(m, instruction, symbols, labels) ==
    LET opcode == name_of(upper(instruction[1]))
        n == Len(instruction)
        raw1 == instruction[2]
        raw2 == instruction[3]
        c1 == strip(raw1, {","})
        cs1 == strip(raw1, {",", ";"})
        pc == m.registers["PC"]
        dest == name_of(c1)
        src == name_of(raw2)
        regs == DOMAIN m.registers
        a == m.registers["A"]
        (* instructions whose operand is a number, a symbol or an expression *)
        with_value(value) ==
            IF value.k # "ok" THEN Fail(Caught_exc, m)
            ELSE CASE opcode = "MVI" -> mvi(m, dest, value.v)
                   [] opcode = "LXI" ->
                        IF dest = "B" THEN Done(advance(set_pair(m, "B", "C", value.v), 3))
                        ELSE IF dest = "D" THEN Done(advance(set_pair(m, "D", "E", value.v), 3))
                        ELSE IF dest = "H" THEN Done(advance(set_pair(m, "H", "L", value.v), 3))
                        ELSE IF dest = "SP"
                        THEN Done(advance(set_reg(m, "SP", value.v % 65536), 3))
                        ELSE Fail("Invalid register pair", m)
                   [] opcode = "LDA" ->
                        IF load_byte(m, value.v).k # "ok" THEN Fail(Caught_exc, m)
                        ELSE Done(advance(set_reg(m, "A", load_byte(m, value.v).v), 3))
                   [] opcode = "STA" ->
                        IF load_byte(m, value.v).k # "ok" THEN Fail(Caught_exc, m)
                        ELSE Done(advance(store_byte(m, value.v, a).m, 3))
                   [] opcode \in {"ADI", "ACI"} ->
                        Done(alu_add(m, value.v % 256,
                                     IF opcode = "ACI" THEN m.flags.C ELSE 0, 2))
                   [] opcode \in {"SUI", "SBI", "CPI"} ->
                        Done(alu_sub(m, value.v % 256,
                                     IF opcode = "SBI" THEN m.flags.C ELSE 0,
                                     opcode # "CPI", 2))
                   [] opcode = "ANI" -> Done(alu_logic(m, BitAnd(a, value.v % 256), 1, 2))
                   [] opcode = "ORI" -> Done(alu_logic(m, BitOr(a, value.v % 256), 0, 2))
                   [] opcode = "XRI" -> Done(alu_logic(m, BitXor(a, value.v % 256), 0, 2))
                   [] opcode = "LHLD" ->
                        Done(advance(set_reg(set_reg(m, "L",
                                                     mem_read(m.memory, value.v % 65536)),
                                             "H", mem_read(m.memory,
                                                           ((value.v % 65536) + 1) % 65536)), 3))
                   [] opcode = "SHLD" ->
                        Done(advance([m EXCEPT !.memory =
                                          mem_write(mem_write(@, value.v % 65536,
                                                              m.registers["L"]),
                                                    ((value.v % 65536) + 1) % 65536,
                                                    m.registers["H"])], 3))
                   [] opcode = "IN" ->
                        Done(advance(set_reg(m, "A", mem_read(m.io_ports, value.v % 256)), 2))
                   [] opcode = "OUT" ->
                        Done(advance([m EXCEPT !.io_ports =
                                          mem_write(@, value.v % 256, a)], 2))
        (* instructions whose operand is a register or M *)
        with_operand(operand) ==
            IF operand.k # "ok" THEN Fail(Caught_exc, m)
            ELSE CASE opcode = "ADD" -> Done(alu_add(m, operand.v, 0, 1))
                   [] opcode = "ADC" -> Done(alu_add(m, operand.v, m.flags.C, 1))
                   [] opcode = "SUB" -> Done(alu_sub(m, operand.v, 0, TRUE, 1))
                   [] opcode = "SBB" -> Done(alu_sub(m, operand.v, m.flags.C, TRUE, 1))
                   [] opcode = "CMP" -> Done(alu_sub(m, operand.v, 0, FALSE, 1))
                   [] opcode = "ANA" -> Done(alu_logic(m, BitAnd(a, operand.v), 1, 1))
                   [] opcode = "ORA" -> Done(alu_logic(m, BitOr(a, operand.v), 0, 1))
                   [] opcode = "XRA" -> Done(alu_logic(m, BitXor(a, operand.v), 0, 1))
                   [] opcode = "INR" -> Done(inr_dcr(m, name_of(raw1), 1))
                   [] opcode = "DCR" -> Done(inr_dcr(m, name_of(raw1), -1))
        (* jumps and calls: a label first, else a number *)
        jump(target) ==
            IF target.k # "ok" THEN Fail(Caught_exc, m)
            ELSE IF jump_condition(opcode, m.flags)
            THEN Done(set_reg(m, "PC", target.v % 65536))
            ELSE Done(advance(m, 3))
        call_to(target) ==
            IF opcode # "CALL" /\ target.k = "ValueError" THEN Fail("Cannot resolve label", m)
            ELSE IF target.k # "ok" THEN Fail(Caught_exc, m)
            ELSE IF opcode = "CALL" \/ call_condition(opcode, m.flags)
            THEN Done(call(m, pc + 3, target.v % 65536))
            ELSE Done(advance(m, 3))
        label_or_number(text) ==
            IF text \in DOMAIN labels THEN Ok(labels[text])
            ELSE cpu_parse_number(text, symbols, labels)
        restart(rst_num) ==
            IF rst_num.k # "ok" THEN Fail(Caught_exc, m)
            ELSE IF rst_num.v < 0 \/ rst_num.v > 7 THEN Fail("Invalid RST number", m)
            ELSE Done(call(m, pc + 1, 8 * rst_num.v))
        add_pair(hl, rhs) ==
            Done(advance([set_pair(m, "H", "L", (hl + rhs) % 65536)
                             EXCEPT !.flags.C = B2N(hl + rhs > 65535)], 1))
    IN  CASE opcode \in JumpOps \cup CallOps \cup {"CALL"} ->
               IF n < 2 THEN Fail(Caught_exc, m)
               ELSE IF opcode \in JumpOps THEN jump(label_or_number(c1))
               ELSE call_to(label_or_number(cs1))
          [] opcode \in {"MVI", "LXI"} ->
               IF n < 3 THEN Fail(Caught_exc, m)
               ELSE with_value(cpu_parse_number(raw2, symbols, labels))
          [] opcode \in {"LDA", "STA", "ACI", "SBI", "ANI", "ORI", "XRI", "LHLD", "SHLD",
                         "ADI", "SUI", "CPI", "IN", "OUT"} ->
               IF n < 2 THEN Fail(Caught_exc, m)
               ELSE with_value(cpu_parse_number(IF opcode \in {"ADI", "SUI", "CPI", "IN", "OUT"}
                                                THEN cs1 ELSE raw1, symbols, labels))
          [] opcode = "MOV" ->
               IF n < 3 THEN Fail(Caught_exc, m)
               ELSE IF dest = "M" /\ src \in regs
               THEN Done(advance([m EXCEPT !.memory =
                                      mem_write(@, get_hl_addr(m), m.registers[src])], 1))
               ELSE IF dest \in regs /\ src = "M"
               THEN Done(advance(set_reg(m, dest, mem_read(m.memory, get_hl_addr(m))), 1))
               ELSE IF dest \in regs /\ src \in regs
               THEN Done(advance(set_reg(m, dest, m.registers[src]), 1))
               ELSE Fail("Invalid register in MOV", m)
          [] opcode \in {"ADD", "ADC", "SUB", "SBB", "CMP", "ANA", "ORA", "XRA", "INR",
                         "DCR"} ->
               IF n < 2 THEN Fail(Caught_exc, m)
               ELSE with_operand(read_operand(m, name_of(IF opcode \in {"INR", "DCR"}
                                                         THEN raw1 ELSE cs1)))
          [] opcode = "HLT" -> halt(m)
          [] opcode \in {"INX", "DCX"} ->
               IF n < 2 THEN Fail(Caught_exc, m)
               ELSE inx_dcx(m, name_of(raw1), IF opcode = "INX" THEN 1 ELSE -1)
          [] opcode = "PUSH" -> IF n < 2 THEN Fail(Caught_exc, m) ELSE push(m, name_of(cs1))
          [] opcode = "POP" -> IF n < 2 THEN Fail(Caught_exc, m) ELSE pop(m, name_of(cs1))
          [] opcode = "RET" -> Done(ret(m))
          [] opcode \in RetOps ->
               IF return_condition(opcode, m.flags) THEN Done(ret(m))
               ELSE Done(advance(m, 1))
          [] opcode = "RST" ->
               IF n < 2 THEN Fail(Caught_exc, m) ELSE restart(py_int10(raw1))
          [] opcode = "DAD" ->
               IF n < 2 THEN Fail(Caught_exc, m)
               ELSE IF name_of(cs1) = "B" THEN add_pair(get_hl_addr(m), get_bc_addr(m))
               ELSE IF name_of(cs1) = "D" THEN add_pair(get_hl_addr(m), get_de_addr(m))
               ELSE IF name_of(cs1) = "H" THEN add_pair(get_hl_addr(m), get_hl_addr(m))
               ELSE IF name_of(cs1) = "SP" THEN add_pair(get_hl_addr(m), m.registers["SP"])
               ELSE Fail("Invalid register pair for DAD", m)
          [] opcode = "XCHG" ->
               Done(advance([m EXCEPT !.registers =
                                 [@ EXCEPT !["D"] = m.registers["H"],
                                           !["E"] = m.registers["L"],
                                           !["H"] = m.registers["D"],
                                           !["L"] = m.registers["E"]]], 1))
          [] opcode = "LDAX" ->
               IF n < 2 THEN Fail(Caught_exc, m)
               ELSE IF name_of(cs1) = "B"
               THEN Done(advance(set_reg(m, "A", mem_read(m.memory, get_bc_addr(m))), 1))
               ELSE IF name_of(cs1) = "D"
               THEN Done(advance(set_reg(m, "A", mem_read(m.memory, get_de_addr(m))), 1))
               ELSE Fail("Invalid register pair for LDAX", m)
          [] opcode = "STAX" ->
               IF n < 2 THEN Fail(Caught_exc, m)
               ELSE IF name_of(cs1) = "B"
               THEN Done(advance([m EXCEPT !.memory = mem_write(@, get_bc_addr(m), a)], 1))
               ELSE IF name_of(cs1) = "D"
               THEN Done(advance([m EXCEPT !.memory = mem_write(@, get_de_addr(m), a)], 1))
               ELSE Fail("Invalid register pair for STAX", m)
          [] opcode = "PCHL" -> Done(set_reg(m, "PC", get_hl_addr(m)))
          [] opcode = "SPHL" -> Done(advance(set_reg(m, "SP", get_hl_addr(m)), 1))
          [] opcode = "XTHL" ->
               Done(advance([set_reg(set_reg(m, "L", mem_read(m.memory, m.registers["SP"])),
                                     "H", mem_read(m.memory, (m.registers["SP"] + 1) % 65536))
                                EXCEPT !.memory =
                                    mem_write(mem_write(@, m.registers["SP"], m.registers["L"]),
                                              (m.registers["SP"] + 1) % 65536,
                                              m.registers["H"])], 1))
          [] opcode = "CMA" -> Done(advance(set_reg(m, "A", 255 - a), 1))
          [] opcode = "CMC" -> Done(advance([m EXCEPT !.flags.C = 1 - @], 1))
          [] opcode = "STC" -> Done(advance([m EXCEPT !.flags.C = 1], 1))
          [] opcode \in {"RLC", "RRC", "RAL", "RAR"} -> Done(rotate(m, opcode))
          [] opcode = "DAA" -> Done(daa(m))
          [] opcode \in {"NOP", "EI", "DI", "SIM"} -> Done(advance(m, 1))
          [] opcode = "RIM" -> Done(advance(set_reg(m, "A", 0), 1))
          [] OTHER -> Fail("Unknown opcode", m)

(* for addr, tokens in self.parsed_program: if addr == pc: ... break *)
RECURSIVE find_instruction(_, _, _)
find_instruction_or_nop(parsed_program, pc, i) ==
    IF \E j \in i..Len(parsed_program) : parsed_program[j][1] = pc
    THEN parsed_program[CHOOSE j \in i..Len(parsed_program) :
                            /\ parsed_program[j][1] = pc
                            /\ \A h \in i..(j - 1) : parsed_program[h][1] # pc][2]
    ELSE <<<<W("NOP")>>>>

find_instruction(parsed_program, pc, i) ==
    IF i > Len(parsed_program) THEN <<>>
    ELSE IF parsed_program[i][1] = pc THEN parsed_program[i][2]
    ELSE find_instruction(parsed_program, pc, i + 1)

(* a step that decodes the byte at PC: the byte of HLT halts *)
step_result_decoding(m, parsed_program, symbols, labels) ==
    LET executed(instruction, r) ==
            [status |-> r.status, error |-> r.error, halted |-> r.halted, m |-> r.m,
             last_instruction |-> join(instruction), found |-> TRUE]
        found(instruction) ==
            IF instruction = <<>>
            THEN [status |-> "ERROR", error |-> "No instruction at address",
                  halted |-> FALSE, m |-> m, last_instruction |-> <<>>, found |-> FALSE]
            ELSE IF mem_read(m.memory, m.registers["PC"]) = 118
            THEN executed(<<<<W("HLT")>>>>, execute(m, <<<<W("HLT")>>>>, symbols, labels))
            ELSE executed(instruction, execute(m, instruction, symbols, labels))
    IN  found(find_instruction(parsed_program, m.registers["PC"], 1))

(* step() on a processor that is neither halted nor in error *)
step_result(m, parsed_program, symbols, labels) ==
    LET executed(instruction, r) ==
            [status |-> r.status, error |-> r.error, halted |-> r.halted, m |-> r.m,
             last_instruction |-> join(instruction), found |-> TRUE]
        found(instruction) ==
            IF instruction = <<>>
            THEN [status |-> "ERROR", error |-> "No instruction at address",
                  halted |-> FALSE, m |-> m, last_instruction |-> <<>>, found |-> FALSE]
            ELSE executed(instruction, execute(m, instruction, symbols, labels))
    IN  found(find_instruction(parsed_program, m.registers["PC"], 1))

(***************************************************************************)
(* Source programs handed to assemble().                                   *)
(***************************************************************************)
(* ORG 2000H / MVI A,05H / HLT  -- the literal program of the round-trip property *)
RoundTrip ==
    <<<<W("ORG"), Blank, Hex(<<2, 0, 0, 0>>)>>,
      <<W("MVI"), Blank, W("A"), Comma, Hex(<<0, 5>>)>>,
      <<W("HLT")>>>>

(* ORG 2000H / MVI A, 05H / HLT  -- the same with a blank after the comma *)
RoundTripSpaced ==
    <<<<W("ORG"), Blank, Hex(<<2, 0, 0, 0>>)>>,
      <<W("MVI"), Blank, W("A"), Comma, Blank, Hex(<<0, 5>>)>>,
      <<W("HLT")>>>>

(* org 2000h / mvi a, 05h / hlt  -- the same in lower case *)
RoundTripLower ==
    <<<<W("org"), Blank, Lhex(<<2, 0, 0, 0>>)>>,
      <<W("mvi"), Blank, W("a"), Comma, Blank, Lhex(<<0, 5>>)>>,
      <<W("hlt")>>>>

(* HLT *)
HltOnly ==
    <<<<W("HLT")>>>>

(* NOP  -- PC runs off the end of the code *)
NopOnly ==
    <<<<W("NOP")>>>>

(* MVI A, 1 / JMP 1234H / HLT  -- a jump to an address that holds no instruction *)
JumpAway ==
    <<<<W("MVI"), Blank, W("A"), Comma, Blank, Dec(<<1>>)>>,
      <<W("JMP"), Blank, Hex(<<1, 2, 3, 4>>)>>,
      <<W("HLT")>>>>

(* MVI B, 2 / L: DCR B / JNZ L / HLT  -- a counting loop *)
Loop ==
    <<<<W("MVI"), Blank, W("B"), Comma, Blank, Dec(<<2>>)>>,
      <<W("L"), Colon, Blank, W("DCR"), Blank, W("B")>>,
      <<W("JNZ"), Blank, W("L")>>,
      <<W("HLT")>>>>

(* LXI SP, 3000H / CALL S / HLT / S: PUSH B / POP B / RET *)
CallRet ==
    <<<<W("LXI"), Blank, W("SP"), Comma, Blank, Hex(<<3, 0, 0, 0>>)>>,
      <<W("CALL"), Blank, W("S")>>,
      <<W("HLT")>>,
      <<W("S"), Colon, Blank, W("PUSH"), Blank, W("B")>>,
      <<W("POP"), Blank, W("B")>>,
      <<W("RET")>>>>

(* MVI A, 7 / OUT 10H / STA 4000H / STC / HLT *)
Ports ==
    <<<<W("MVI"), Blank, W("A"), Comma, Blank, Dec(<<7>>)>>,
      <<W("OUT"), Blank, Hex(<<1, 0>>)>>,
      <<W("STA"), Blank, Hex(<<4, 0, 0, 0>>)>>,
      <<W("STC")>>,
      <<W("HLT")>>>>

(* N EQU 5 / MVI A, N / HLT  -- NAME EQU expr, no colon *)
EquPlain ==
    <<<<W("N"), Blank, W("EQU"), Blank, Dec(<<5>>)>>,
      <<W("MVI"), Blank, W("A"), Comma, Blank, W("N")>>,
      <<W("HLT")>>>>

(* N: EQU 5 / MVI A, N / HLT  -- NAME: EQU expr *)
EquColon ==
    <<<<W("N"), Colon, Blank, W("EQU"), Blank, Dec(<<5>>)>>,
      <<W("MVI"), Blank, W("A"), Comma, Blank, W("N")>>,
      <<W("HLT")>>>>

(* A EQU B + 1 / B EQU 5 / HLT *)
EquChainAB ==
    <<<<W("A"), Blank, W("EQU"), Blank, W("B"), Blank, W("+"), Blank, Dec(<<1>>)>>,
      <<W("B"), Blank, W("EQU"), Blank, Dec(<<5>>)>>,
      <<W("HLT")>>>>

(* B EQU 5 / A EQU B + 1 / HLT *)
EquChainBA ==
    <<<<W("B"), Blank, W("EQU"), Blank, Dec(<<5>>)>>,
      <<W("A"), Blank, W("EQU"), Blank, W("B"), Blank, W("+"), Blank, Dec(<<1>>)>>,
      <<W("HLT")>>>>

(* A: EQU B + 1 / B: EQU 5 / HLT *)
EquColonAB ==
    <<<<W("A"), Colon, Blank, W("EQU"), Blank, W("B"), Blank, W("+"), Blank, Dec(<<1>>)>>,
      <<W("B"), Colon, Blank, W("EQU"), Blank, Dec(<<5>>)>>,
      <<W("HLT")>>>>

(* B: EQU 5 / A: EQU B + 1 / HLT *)
EquColonBA ==
    <<<<W("B"), Colon, Blank, W("EQU"), Blank, Dec(<<5>>)>>,
      <<W("A"), Colon, Blank, W("EQU"), Blank, W("B"), Blank, W("+"), Blank, Dec(<<1>>)>>,
      <<W("HLT")>>>>

(* NOP / A: EQU B + 1 / B: EQU L / NOP / L: HLT  -- an EQU chain through a label, A before B *)
EquLabelAB ==
    <<<<W("NOP")>>,
      <<W("A"), Colon, Blank, W("EQU"), Blank, W("B"), Blank, W("+"), Blank, Dec(<<1>>)>>,
      <<W("B"), Colon, Blank, W("EQU"), Blank, W("L")>>,
      <<W("NOP")>>,
      <<W("L"), Colon, Blank, W("HLT")>>>>

(* NOP / B: EQU L / A: EQU B + 1 / NOP / L: HLT  -- the same EQU lines in the other order *)
EquLabelBA ==
    <<<<W("NOP")>>,
      <<W("B"), Colon, Blank, W("EQU"), Blank, W("L")>>,
      <<W("A"), Colon, Blank, W("EQU"), Blank, W("B"), Blank, W("+"), Blank, Dec(<<1>>)>>,
      <<W("NOP")>>,
      <<W("L"), Colon, Blank, W("HLT")>>>>

(* N: EQU 0FFFFH + 2 / HLT  -- a value wider than 16 bits *)
EquWide ==
    <<<<W("N"), Colon, Blank, W("EQU"), Blank, Hex(<<0, 15, 15, 15, 15>>), Blank, W("+"), Blank, Dec(<<2>>)>>,
      <<W("HLT")>>>>

(* HLT / X: EQU Y *)
EquUnresolved ==
    <<<<W("HLT")>>,
      <<W("X"), Colon, Blank, W("EQU"), Blank, W("Y")>>>>

(* HLT / X: EQU 1 / 0 *)
EquDivZero ==
    <<<<W("HLT")>>,
      <<W("X"), Colon, Blank, W("EQU"), Blank, Dec(<<1>>), Blank, W("/"), Blank, Dec(<<0>>)>>>>

(* MOV M,M *)
MovMM ==
    <<<<W("MOV"), Blank, W("M"), Comma, W("M")>>>>

(* MOV M, M *)
MovMMSpaced ==
    <<<<W("MOV"), Blank, W("M"), Comma, Blank, W("M")>>>>

(* NOP / MOV M, M / HLT *)
MovMMMiddle ==
    <<<<W("NOP")>>,
      <<W("MOV"), Blank, W("M"), Comma, Blank, W("M")>>,
      <<W("HLT")>>>>

(* HLT / END / MOV M, M *)
MovMMAfterEnd ==
    <<<<W("HLT")>>,
      <<W("END")>>,
      <<W("MOV"), Blank, W("M"), Comma, Blank, W("M")>>>>

(* FOO / MOV M, M  -- an earlier line fails first *)
MovMMAfterBad ==
    <<<<W("FOO")>>,
      <<W("MOV"), Blank, W("M"), Comma, Blank, W("M")>>>>

(* MVI A *)
MissingOperand ==
    <<<<W("MVI"), Blank, W("A")>>>>

(* NOP / RST X *)
RstName ==
    <<<<W("NOP")>>,
      <<W("RST"), Blank, W("X")>>>>

(* RST 8 *)
RstRange ==
    <<<<W("RST"), Blank, Dec(<<8>>)>>>>

(* RST 7H  -- assembles; int() in step() rejects the H suffix *)
RstHex ==
    <<<<W("RST"), Blank, Hex(<<7>>)>>>>

(* MVI A, 1 / 0 *)
DivZero ==
    <<<<W("MVI"), Blank, W("A"), Comma, Blank, Dec(<<1>>), Blank, W("/"), Blank, Dec(<<0>>)>>>>

(* ORG 0FFFFH / MVI A, 1  -- an instruction that does not fit below 0x10000 *)
PastEnd ==
    <<<<W("ORG"), Blank, Hex(<<0, 15, 15, 15, 15>>)>>,
      <<W("MVI"), Blank, W("A"), Comma, Blank, Dec(<<1>>)>>>>

(* ORG *)
OrgMissing ==
    <<<<W("ORG")>>>>

(* NOP / FOO *)
Unknown ==
    <<<<W("NOP")>>,
      <<W("FOO")>>>>

(* L: NOP / L: HLT *)
DupLabel ==
    <<<<W("L"), Colon, Blank, W("NOP")>>,
      <<W("L"), Colon, Blank, W("HLT")>>>>

(* PUSH SP / HLT  -- assembles; step() has no PUSH SP *)
PushSP ==
    <<<<W("PUSH"), Blank, W("SP")>>,
      <<W("HLT")>>>>

(* LDA 10000H / HLT  -- assembles; the address is not masked in step() *)
LdaWide ==
    <<<<W("LDA"), Blank, Hex(<<1, 0, 0, 0, 0>>)>>,
      <<W("HLT")>>>>

(* L: X:MVI A, 1 / HLT  -- a second label fused to the mnemonic *)
FusedOdd ==
    <<<<W("L"), Colon, Blank, W("X"), Colon, W("MVI"), Blank, W("A"), Comma, Blank, Dec(<<1>>)>>,
      <<W("HLT")>>>>

(* ORG 3000H / DS 10 / HLT *)
DsPlain ==
    <<<<W("ORG"), Blank, Hex(<<3, 0, 0, 0>>)>>,
      <<W("DS"), Blank, Dec(<<1, 0>>)>>,
      <<W("HLT")>>>>

(* ORG 3000H / BUF: DS 10 / HLT *)
DsLabelled ==
    <<<<W("ORG"), Blank, Hex(<<3, 0, 0, 0>>)>>,
      <<W("BUF"), Colon, Blank, W("DS"), Blank, Dec(<<1, 0>>)>>,
      <<W("HLT")>>>>

(* N: EQU 3 / DS N + 1 / HLT *)
DsSymbol ==
    <<<<W("N"), Colon, Blank, W("EQU"), Blank, Dec(<<3>>)>>,
      <<W("DS"), Blank, W("N"), Blank, W("+"), Blank, Dec(<<1>>)>>,
      <<W("HLT")>>>>

(* ORG 8 / N: EQU L - 14 / DS N / L: HLT  -- N is resolved after the first pass *)
DsPending ==
    <<<<W("ORG"), Blank, Dec(<<8>>)>>,
      <<W("N"), Colon, Blank, W("EQU"), Blank, W("L"), Blank, W("-"), Blank, Dec(<<1, 4>>)>>,
      <<W("DS"), Blank, W("N")>>,
      <<W("L"), Colon, Blank, W("HLT")>>>>

(* MVI A, 1 / HLT / DS 4  -- a DS after the last instruction *)
DsTrailing ==
    <<<<W("MVI"), Blank, W("A"), Comma, Blank, Dec(<<1>>)>>,
      <<W("HLT")>>,
      <<W("DS"), Blank, Dec(<<4>>)>>>>

(* HLT / ORG 3000H / DS 4  -- the only ORG follows the code *)
OrgTrailing ==
    <<<<W("HLT")>>,
      <<W("ORG"), Blank, Hex(<<3, 0, 0, 0>>)>>,
      <<W("DS"), Blank, Dec(<<4>>)>>>>

(* ORG 10H / LXI H, 5 / ORG 3 / NOP  -- a second ORG, below the first *)
OrgTwice ==
    <<<<W("ORG"), Blank, Hex(<<1, 0>>)>>,
      <<W("LXI"), Blank, W("H"), Comma, Blank, Dec(<<5>>)>>,
      <<W("ORG"), Blank, Dec(<<3>>)>>,
      <<W("NOP")>>>>

(* HLT / END / ORG 5  -- an ORG line below END *)
OrgAfterEnd ==
    <<<<W("HLT")>>,
      <<W("END")>>,
      <<W("ORG"), Blank, Dec(<<5>>)>>>>

(* org 100h ; ORG 7 / HLT  -- lower case, another ORG in the comment *)
OrgLower ==
    <<<<W("org"), Blank, Lhex(<<1, 0, 0>>), Blank, Semi, Blank, W("ORG"), Blank, Dec(<<7>>)>>,
      <<W("HLT")>>>>

(* L: NOP / L:HLT  -- the second definition fused to the mnemonic *)
DupFused ==
    <<<<W("L"), Colon, Blank, W("NOP")>>,
      <<W("L"), Colon, W("HLT")>>>>

(* L: NOP / HLT / END / L: HLT  -- the second definition below END *)
DupAfterEnd ==
    <<<<W("L"), Colon, Blank, W("NOP")>>,
      <<W("HLT")>>,
      <<W("END")>>,
      <<W("L"), Colon, Blank, W("HLT")>>>>

(* L: NOP / FOO / L: HLT  -- an unknown instruction before the second definition *)
DupAfterError ==
    <<<<W("L"), Colon, Blank, W("NOP")>>,
      <<W("FOO")>>,
      <<W("L"), Colon, Blank, W("HLT")>>>>

(* L: EQU 5 / K: / L: HLT  -- the first definition on an EQU line *)
DupEqu ==
    <<<<W("L"), Colon, Blank, W("EQU"), Blank, Dec(<<5>>)>>,
      <<W("K"), Colon>>,
      <<W("L"), Colon, Blank, W("HLT")>>>>

(* MVI A, 76H / STA 5 / NOP / MVI B, 1 / HLT  -- the program stores the    *)
(* byte of HLT over its own NOP at address 5                               *)
SelfModifying ==
    <<<<W("MVI"), Blank, W("A"), Comma, Blank, Hex(<<7, 6>>)>>,
      <<W("STA"), Blank, Dec(<<5>>)>>,
      <<W("NOP")>>,
      <<W("MVI"), Blank, W("B"), Comma, Blank, Dec(<<1>>)>>,
      <<W("HLT")>>>>

(* ORG 0FFFFH / NOP  -- one instruction at the top of the address space *)
TopOfMemory ==
    <<<<W("ORG"), Blank, Hex(<<0, 15, 15, 15, 15>>)>>,
      <<W("NOP")>>>>

(* LXI SP, 2000H / PUSH SP / HLT  -- a pair the assembler encodes as 0F5H *)
PushSp ==
    <<<<W("LXI"), Blank, W("SP"), Comma, Blank, Hex(<<2, 0, 0, 0>>)>>,
      <<W("PUSH"), Blank, W("SP")>>,
      <<W("HLT")>>>>

(* MVI A, 6&3 / HLT  -- an operator the assembler evaluates *)
MviAnd ==
    <<<<W("MVI"), Blank, W("A"), Comma, Blank, Dec(<<6>>), W("&"), Dec(<<3>>)>>,
      <<W("HLT")>>>>

(* NOP / X: EQU 5 / JMP X / NOP / NOP / HLT  -- the target is the symbol X *)
(* (5) and the label X (1): every NAME: EQU line defines both              *)
JumpToName ==
    <<<<W("NOP")>>,
      <<W("X"), Colon, Blank, W("EQU"), Blank, Dec(<<5>>)>>,
      <<W("JMP"), Blank, W("X")>>,
      <<W("NOP")>>,
      <<W("NOP")>>,
      <<W("HLT")>>>>

(* NOP / X: EQU 4 / JMP X + 1 / NOP / HLT  -- the target is an expression *)
JumpToSum ==
    <<<<W("NOP")>>,
      <<W("X"), Colon, Blank, W("EQU"), Blank, Dec(<<4>>)>>,
      <<W("JMP"), Blank, W("X"), Blank, W("+"), Blank, Dec(<<1>>)>>,
      <<W("NOP")>>,
      <<W("HLT")>>>>

(* NOP / X: EQU 7 / LXI H, X / MVI A, X / HLT  -- immediates by name *)
ImmediateByName ==
    <<<<W("NOP")>>,
      <<W("X"), Colon, Blank, W("EQU"), Blank, Dec(<<7>>)>>,
      <<W("LXI"), Blank, W("H"), Comma, Blank, W("X")>>,
      <<W("MVI"), Blank, W("A"), Comma, Blank, W("X")>>,
      <<W("HLT")>>>>

Programs ==
    {RoundTrip,
     SelfModifying,
     TopOfMemory,
     PushSp,
     MviAnd,
     JumpToName,
     JumpToSum,
     ImmediateByName,
     RoundTripSpaced,
     RoundTripLower,
     HltOnly,
     NopOnly,
     JumpAway,
     Loop,
     CallRet,
     Ports,
     EquPlain,
     EquColon,
     EquChainAB,
     EquChainBA,
     EquColonAB,
     EquColonBA,
     EquLabelAB,
     EquLabelBA,
     EquWide,
     EquUnresolved,
     EquDivZero,
     MovMM,
     MovMMSpaced,
     MovMMMiddle,
     MovMMAfterEnd,
     MovMMAfterBad,
     MissingOperand,
     RstName,
     RstRange,
     RstHex,
     DivZero,
     PastEnd,
     OrgMissing,
     Unknown,
     DupLabel,
     PushSP,
     LdaWide,
     FusedOdd,
     DsPlain,
     DsLabelled,
     DsSymbol,
     DsPending,
     DsTrailing,
     OrgTrailing,
     OrgTwice,
     OrgAfterEnd,
     OrgLower,
     DupFused,
     DupAfterEnd,
     DupAfterError,
     DupEqu}

(* the programs a second assemble() call may be given *)
SecondPrograms == {RoundTripSpaced, NopOnly, MovMMSpaced}

(***************************************************************************)
(* Families of programs for the processor's instructions; an operand is    *)
(* given as the text of the source (a numeral or a register name).         *)
(***************************************************************************)
(* the values SP is given before a PUSH or a CALL: 0, 1, 2, 3000H, 0FFFFH *)
StackTops ==
    {Dec(<<0>>), Dec(<<1>>), Dec(<<2>>), Hex(<<3, 0, 0, 0>>), Hex(<<0, 15, 15, 15, 15>>)}

(* LXI SP, top / LXI rp, 12ABH / PUSH rp / POP rp / HLT *)
PushPop(rp, top) ==
    <<<<W("LXI"), Blank, W("SP"), Comma, Blank, top>>,
      <<W("LXI"), Blank, W(rp), Comma, Blank, Hex(<<1, 2, 10, 11>>)>>,
      <<W("PUSH"), Blank, W(rp)>>,
      <<W("POP"), Blank, W(rp)>>,
      <<W("HLT")>>>>

(* LXI SP, top / MVI A, first / ADI 1 / PUSH PSW / POP PSW / HLT *)
PushPopPSW(first, top) ==
    <<<<W("LXI"), Blank, W("SP"), Comma, Blank, top>>,
      <<W("MVI"), Blank, W("A"), Comma, Blank, first>>,
      <<W("ADI"), Blank, Dec(<<1>>)>>,
      <<W("PUSH"), Blank, W("PSW")>>,
      <<W("POP"), Blank, W("PSW")>>,
      <<W("HLT")>>>>

PushPopPrograms ==
    {PushPop(rp, top) : rp \in {"B", "D", "H"}, top \in StackTops}
    \cup {PushPopPSW(first, top) : first \in {Hex(<<7, 15>>), Hex(<<0, 15, 15>>)},
                                   top \in StackTops}

(* S: RET / ORG org / LXI SP, top / CALL S, then tail: the CALL is at org + 3 *)
CallRetAt(org, top, tail) ==
    <<<<W("S"), Colon, Blank, W("RET")>>,
      <<W("ORG"), Blank, org>>,
      <<W("LXI"), Blank, W("SP"), Comma, Blank, top>>,
      <<W("CALL"), Blank, W("S")>>>> \o tail

(* CALL at 0103H and at 0FFFAH with HLT after it; CALL at 0FFFDH, the last *)
(* place a three-byte instruction fits                                     *)
CallRetPrograms ==
    {CallRetAt(org, top, <<<<W("HLT")>>>>) :
         org \in {Hex(<<1, 0, 0>>), Hex(<<0, 15, 15, 15, 7>>)}, top \in StackTops}
    \cup {CallRetAt(Hex(<<0, 15, 15, 15, 10>>), top, <<>>) : top \in StackTops}
    \cup {CallRet}

(* immediate operands as written and the number each denotes *)
Immediates ==
    {<<Dec(<<0>>), 0>>, <<Dec(<<5>>), 5>>, <<Hex(<<0, 15, 15>>), 255>>,
     <<Dec(<<2, 5, 6>>), 256>>, <<Hex(<<1, 2, 3, 4>>), 4660>>,
     <<Dec(<<6, 5, 5, 3, 5>>), 65535>>}

(* LXI H, 4000H / MVI reg, operand / HLT *)
Mvi(reg, operand) ==
    <<<<W("LXI"), Blank, W("H"), Comma, Blank, Hex(<<4, 0, 0, 0>>)>>,
      <<W("MVI"), Blank, W(reg), Comma, Blank, operand>>,
      <<W("HLT")>>>>

MviPrograms ==
    {Mvi(reg, o[1]) : reg \in {"A", "B", "C", "D", "E", "H", "L", "M"}, o \in Immediates}

(* operands of the logical instructions and the number each denotes *)
LogicOperands ==
    {<<Dec(<<0>>), 0>>, <<Hex(<<0, 15>>), 15>>, <<Hex(<<0, 10, 10>>), 170>>,
     <<Hex(<<0, 15, 15>>), 255>>}

(* added to A = 0FFH to set A and the flags before the logical instruction: *)
(* 0 (A = FF, C = 0, AC = 0), 1 (A = 00, C = 1, AC = 1),                   *)
(* 56H (A = 55, C = 1, AC = 1), 10H (A = 0F, C = 1, AC = 0)                *)
Addends == {Dec(<<0>>), Dec(<<1>>), Hex(<<5, 6>>), Hex(<<1, 0>>)}

(* MVI B, operand / MVI A, 0FFH / ADI addend / opcode B / HLT *)
LogicReg(opcode, addend, operand) ==
    <<<<W("MVI"), Blank, W("B"), Comma, Blank, operand>>,
      <<W("MVI"), Blank, W("A"), Comma, Blank, Hex(<<0, 15, 15>>)>>,
      <<W("ADI"), Blank, addend>>,
      <<W(opcode), Blank, W("B")>>,
      <<W("HLT")>>>>

(* MVI A, 0FFH / ADI addend / opcode operand / HLT *)
LogicImm(opcode, addend, operand) ==
    <<<<W("MVI"), Blank, W("A"), Comma, Blank, Hex(<<0, 15, 15>>)>>,
      <<W("ADI"), Blank, addend>>,
      <<W(opcode), Blank, operand>>,
      <<W("HLT")>>>>

LogicPrograms ==
    {LogicReg(opcode, addend, o[1]) :
         opcode \in {"ANA", "ORA", "XRA"}, addend \in Addends, o \in LogicOperands}
    \cup {LogicImm(opcode, addend, o[1]) :
              opcode \in {"ANI", "ORI", "XRI"}, addend \in Addends, o \in LogicOperands}

(* the words POP PSW is given: A = 5AH and a flags byte with no flag, one  *)
(* flag (C, P, AC, Z, S) or all five set                                   *)
FlagWords ==
    {Hex(<<5, 10, 0, 0>>), Hex(<<5, 10, 0, 1>>), Hex(<<5, 10, 0, 4>>), Hex(<<5, 10, 1, 0>>),
     Hex(<<5, 10, 4, 0>>), Hex(<<5, 10, 8, 0>>), Hex(<<5, 10, 13, 5>>)}

(* LXI SP, top / LXI B, word / PUSH B / POP PSW, then tail: the flags are  *)
(* the low byte of word when tail begins, at address 8 with SP = top       *)
WithFlags(word, top, tail) ==
    <<<<W("LXI"), Blank, W("SP"), Comma, Blank, top>>,
      <<W("LXI"), Blank, W("B"), Comma, Blank, word>>,
      <<W("PUSH"), Blank, W("B")>>,
      <<W("POP"), Blank, W("PSW")>>>> \o tail

(* ... callop S / HLT / S: retop / HLT *)
CallIf(callop, retop, word, top) ==
    WithFlags(word, top,
              <<<<W(callop), Blank, W("S")>>,
                <<W("HLT")>>,
                <<W("S"), Colon, Blank, W(retop)>>,
                <<W("HLT")>>>>)

(* ... jumpop L / HLT / L: HLT *)
JumpIf(jumpop, word) ==
    WithFlags(word, Hex(<<3, 0, 0, 0>>),
              <<<<W(jumpop), Blank, W("L")>>,
                <<W("HLT")>>,
                <<W("L"), Colon, Blank, W("HLT")>>>>)

(* ORG 100H / LXI SP, top / RST n / HLT / ORG 8n / RET *)
Restart(n, top) ==
    <<<<W("ORG"), Blank, Hex(<<1, 0, 0>>)>>,
      <<W("LXI"), Blank, W("SP"), Comma, Blank, top>>,
      <<W("RST"), Blank, Dec(<<n>>)>>,
      <<W("HLT")>>,
      <<W("ORG"), Blank, Dec(<<(8 * n) \div 10, (8 * n) % 10>>)>>,
      <<W("RET")>>>>

(* each conditional call with its conditional return, with RET, and CALL   *)
(* with each conditional return; each conditional jump and JMP; RST 0, 1, 7 *)
TransferPrograms ==
    {CallIf(pair[1], pair[2], word, top) :
         pair \in {<<"CZ", "RZ">>, <<"CNZ", "RNZ">>, <<"CC", "RC">>, <<"CNC", "RNC">>,
                   <<"CP", "RP">>, <<"CM", "RM">>, <<"CPE", "RPE">>, <<"CPO", "RPO">>}
                  \cup {<<c, "RET">> : c \in CallOps}
                  \cup {<<"CALL", r>> : r \in RetOps},
         word \in FlagWords, top \in {Dec(<<1>>), Hex(<<3, 0, 0, 0>>)}}
    \cup {JumpIf(jumpop, word) : jumpop \in JumpOps, word \in FlagWords}
    \cup {Restart(n, top) : n \in {0, 1, 7}, top \in StackTops}

(* every instruction that is not a jump, call, return, RST, PCHL or HLT,   *)
(* with a register, memory, register pair or immediate operand             *)
StraightLines ==
    {<<W("MVI"), Blank, W("A"), Comma, Blank, Dec(<<5>>)>>,
     <<W("MVI"), Blank, W("M"), Comma, Blank, Dec(<<5>>)>>,
     <<W("MOV"), Blank, W("A"), Comma, Blank, W("B")>>,
     <<W("MOV"), Blank, W("M"), Comma, Blank, W("A")>>,
     <<W("MOV"), Blank, W("A"), Comma, Blank, W("M")>>,
     <<W("LXI"), Blank, W("B"), Comma, Blank, Hex(<<1, 2, 3, 4>>)>>,
     <<W("LXI"), Blank, W("SP"), Comma, Blank, Hex(<<2, 0, 0, 0>>)>>,
     <<W("LDA"), Blank, Hex(<<4, 0, 0, 0>>)>>,
     <<W("STA"), Blank, Hex(<<4, 0, 0, 0>>)>>,
     <<W("ADD"), Blank, W("B")>>,
     <<W("ADD"), Blank, W("M")>>,
     <<W("ADI"), Blank, Dec(<<5>>)>>,
     <<W("SUB"), Blank, W("B")>>,
     <<W("SUB"), Blank, W("M")>>,
     <<W("INR"), Blank, W("A")>>,
     <<W("INR"), Blank, W("M")>>,
     <<W("DCR"), Blank, W("B")>>,
     <<W("DCR"), Blank, W("M")>>,
     <<W("INX"), Blank, W("H")>>,
     <<W("INX"), Blank, W("SP")>>,
     <<W("DCX"), Blank, W("B")>>,
     <<W("DCX"), Blank, W("SP")>>,
     <<W("PUSH"), Blank, W("B")>>,
     <<W("PUSH"), Blank, W("PSW")>>,
     <<W("POP"), Blank, W("D")>>,
     <<W("POP"), Blank, W("PSW")>>,
     <<W("CPI"), Blank, Dec(<<5>>)>>,
     <<W("DAD"), Blank, W("B")>>,
     <<W("DAD"), Blank, W("SP")>>,
     <<W("XCHG")>>,
     <<W("LDAX"), Blank, W("B")>>,
     <<W("LDAX"), Blank, W("D")>>,
     <<W("STAX"), Blank, W("B")>>,
     <<W("STAX"), Blank, W("D")>>,
     <<W("LHLD"), Blank, Hex(<<4, 0, 0, 0>>)>>,
     <<W("SHLD"), Blank, Hex(<<4, 0, 0, 0>>)>>,
     <<W("SPHL")>>,
     <<W("XTHL")>>,
     <<W("ANA"), Blank, W("B")>>,
     <<W("ANA"), Blank, W("M")>>,
     <<W("ANI"), Blank, Dec(<<5>>)>>,
     <<W("ORA"), Blank, W("B")>>,
     <<W("ORI"), Blank, Dec(<<5>>)>>,
     <<W("XRA"), Blank, W("B")>>,
     <<W("XRI"), Blank, Dec(<<5>>)>>,
     <<W("CMA")>>,
     <<W("CMC")>>,
     <<W("STC")>>,
     <<W("RLC")>>,
     <<W("RRC")>>,
     <<W("RAL")>>,
     <<W("RAR")>>,
     <<W("ADC"), Blank, W("B")>>,
     <<W("ACI"), Blank, Dec(<<5>>)>>,
     <<W("SBB"), Blank, W("B")>>,
     <<W("SBI"), Blank, Dec(<<5>>)>>,
     <<W("DAA")>>,
     <<W("CMP"), Blank, W("B")>>,
     <<W("CMP"), Blank, W("M")>>,
     <<W("NOP")>>,
     <<W("SUI"), Blank, Dec(<<5>>)>>,
     <<W("IN"), Blank, Dec(<<1>>)>>,
     <<W("OUT"), Blank, Dec(<<1>>)>>,
     <<W("EI")>>,
     <<W("DI")>>,
     <<W("RIM")>>,
     <<W("SIM")>>}

(* LXI H, 4000H / line / NOP / HLT *)
Straight(line) ==
    <<<<W("LXI"), Blank, W("H"), Comma, Blank, Hex(<<4, 0, 0, 0>>)>>,
      line,
      <<W("NOP")>>,
      <<W("HLT")>>>>

StraightPrograms == {Straight(line) : line \in StraightLines}

(* old values of INR and DCR: 00H, 01H, 0FH, 10H, 1FH, 80H, 0F0H, 0FFH *)
NibbleValues ==
    {Hex(<<0, 0>>), Hex(<<0, 1>>), Hex(<<0, 15>>), Hex(<<1, 0>>), Hex(<<1, 15>>),
     Hex(<<8, 0>>), Hex(<<0, 15, 0>>), Hex(<<0, 15, 15>>)}

(* LXI H, 4000H / MVI reg, value / STC or NOP / opcode reg / HLT *)
IncDec(opcode, reg, value, carry) ==
    <<<<W("LXI"), Blank, W("H"), Comma, Blank, Hex(<<4, 0, 0, 0>>)>>,
      <<W("MVI"), Blank, W(reg), Comma, Blank, value>>,
      <<W(IF carry THEN "STC" ELSE "NOP")>>,
      <<W(opcode), Blank, W(reg)>>,
      <<W("HLT")>>>>

(* MVI A, value / SUI 1 / HLT *)
SubtractOne(value) ==
    <<<<W("MVI"), Blank, W("A"), Comma, Blank, value>>,
      <<W("SUI"), Blank, Dec(<<1>>)>>,
      <<W("HLT")>>>>

IncDecPrograms ==
    {IncDec(opcode, reg, value, carry) :
         opcode \in {"INR", "DCR"}, reg \in {"A", "B", "M"}, value \in NibbleValues,
         carry \in BOOLEAN}
    \cup {SubtractOne(value) : value \in NibbleValues}

(* accumulator and operand values: 00H, 01H, 0FH, 7FH, 80H, 0F0H, 0FFH *)
AddValues ==
    {Hex(<<0, 0>>), Hex(<<0, 1>>), Hex(<<0, 15>>), Hex(<<7, 15>>), Hex(<<8, 0>>),
     Hex(<<0, 15, 0>>), Hex(<<0, 15, 15>>)}

(* MVI A, a / MVI B, v / STC or NOP / opcode B / HLT  (ADD, ADC) *)
AddReg(opcode, a, v, carry) ==
    <<<<W("MVI"), Blank, W("A"), Comma, Blank, a>>,
      <<W("MVI"), Blank, W("B"), Comma, Blank, v>>,
      <<W(IF carry THEN "STC" ELSE "NOP")>>,
      <<W(opcode), Blank, W("B")>>,
      <<W("HLT")>>>>

(* MVI A, a / STC or NOP / opcode v / HLT  (ADI, ACI) *)
AddImm(opcode, a, v, carry) ==
    <<<<W("MVI"), Blank, W("A"), Comma, Blank, a>>,
      <<W(IF carry THEN "STC" ELSE "NOP")>>,
      <<W(opcode), Blank, v>>,
      <<W("HLT")>>>>

AddPrograms ==
    {AddReg(opcode, a, v, carry) :
         opcode \in {"ADD", "ADC"}, a \in AddValues, v \in AddValues, carry \in BOOLEAN}
    \cup {AddImm(opcode, a, v, carry) :
              opcode \in {"ADI", "ACI"}, a \in AddValues, v \in AddValues,
              carry \in BOOLEAN}

(* decimal numbers whose packed-BCD bytes are added: nibbles without and   *)
(* with a carry out of either digit                                        *)
BcdValues == {0, 9, 15, 38, 61, 99}

(* the numeral xyH of the packed-BCD byte of a decimal number 10 x + y *)
Bcd(n) == Hex(<<n \div 10, n % 10>>)

(* MVI A, x / ADI y / DAA / HLT *)
BcdAdi(x, y) ==
    <<<<W("MVI"), Blank, W("A"), Comma, Blank, Bcd(x)>>,
      <<W("ADI"), Blank, Bcd(y)>>,
      <<W("DAA")>>,
      <<W("HLT")>>>>

(* MVI B, y / MVI A, x / ADD B / DAA / HLT *)
BcdAdd(x, y) ==
    <<<<W("MVI"), Blank, W("B"), Comma, Blank, Bcd(y)>>,
      <<W("MVI"), Blank, W("A"), Comma, Blank, Bcd(x)>>,
      <<W("ADD"), Blank, W("B")>>,
      <<W("DAA")>>,
      <<W("HLT")>>>>

BcdPrograms ==
    {BcdAdi(x, y) : x \in BcdValues, y \in BcdValues}
    \cup {BcdAdd(x, y) : x \in BcdValues, y \in BcdValues}

CpuPrograms ==
    PushPopPrograms \cup CallRetPrograms \cup MviPrograms \cup LogicPrograms
        \cup TransferPrograms \cup StraightPrograms \cup IncDecPrograms
        \cup AddPrograms \cup BcdPrograms

(***************************************************************************)
(* Processor8085 as a record p = [registers, flags, memory, io_ports,      *)
(* halted, error, last_instruction, program]; error "" and                 *)
(* last_instruction <<>> stand for None.  program holds the fields copied  *)
(* from the AssemblyOutput.                                                *)
(***************************************************************************)
NoError == ""

NoProgram ==
    [parsed_program |-> <<>>, line_to_address_map |-> <<>>,
     address_to_line_map |-> <<>>, labels |-> <<>>, symbols |-> <<>>,
     program_end_address |-> 0, program_memory_range |-> {},
     data_memory_range |-> {}]

(* Processor8085.__init__ *)
new_processor ==
    [registers |-> InitRegisters, flags |-> InitFlags, memory |-> <<>>,
     io_ports |-> <<>>, halted |-> FALSE, error |-> NoError,
     last_instruction |-> <<>>, program |-> NoProgram]

(* load_program leaving PC at 0 *)
load_program_at_zero(p, assembly_output) ==
    [p EXCEPT !.memory = assembly_output.memory,
              !.program = [parsed_program |-> assembly_output.parsed_program,
                           line_to_address_map |-> assembly_output.line_to_address_map,
                           address_to_line_map |-> assembly_output.address_to_line_map,
                           labels |-> assembly_output.labels,
                           symbols |-> assembly_output.symbols,
                           program_end_address |-> assembly_output.program_end_address,
                           program_memory_range |-> assembly_output.program_memory_range,
                           data_memory_range |-> assembly_output.data_memory_range],
              !.registers["PC"] = 0,
              !.halted = FALSE,
              !.error = NoError,
              !.last_instruction = <<>>]

load_program(p, assembly_output) ==
    [p EXCEPT !.memory = assembly_output.memory,
              !.program = [parsed_program |-> assembly_output.parsed_program,
                           line_to_address_map |-> assembly_output.line_to_address_map,
                           address_to_line_map |-> assembly_output.address_to_line_map,
                           labels |-> assembly_output.labels,
                           symbols |-> assembly_output.symbols,
                           program_end_address |-> assembly_output.program_end_address,
                           program_memory_range |-> assembly_output.program_memory_range,
                           data_memory_range |-> assembly_output.data_memory_range],
              !.registers["PC"] = assembly_output.starting_address,
              !.halted = FALSE,
              !.error = NoError,
              !.last_instruction = <<>>]

(* step(): the processor afterwards and the status returned *)
(* if self.halted: return "HALT" *)
step_halted_resuming(p) ==
    [status |-> "OK", p |-> [p EXCEPT !.halted = FALSE, !.registers["PC"] = @ + 1]]

step_halted(p) == [status |-> "HALT", p |-> p]

(* the rest of step(): find the instruction at PC and execute it *)
step_running(p) ==
    LET m == [registers |-> p.registers, flags |-> p.flags, memory |-> p.memory,
              io_ports |-> p.io_ports]
        after(r) ==
            [status |-> r.status,
             p |-> [p EXCEPT !.registers = r.m.registers,
                             !.flags = r.m.flags,
                             !.memory = r.m.memory,
                             !.io_ports = r.m.io_ports,
                             !.halted = r.halted,
                             !.error = IF r.status = "ERROR" THEN r.error ELSE @,
                             !.last_instruction =
                                 IF r.found THEN r.last_instruction ELSE @]]
    IN  after(step_result(m, p.program.parsed_program, p.program.symbols,
                          p.program.labels))

(* if self.error: return "ERROR" *)
step_failed_skipping(p) ==
    [status |-> "OK", p |-> [p EXCEPT !.error = NoError, !.registers["PC"] = @ + 1]]

step_failed(p) == [status |-> "ERROR", p |-> p]

step(p) ==
    IF p.halted THEN step_halted(p)
    ELSE IF p.error # NoError THEN step_failed(p)
    ELSE step_running(p)

(* is_program_memory without the test of data_memory_range *)
is_program_memory_by_range(p, address) ==
    address \in p.program.program_memory_range

is_program_memory(p, address) ==
    address \in p.program.program_memory_range
    /\ address \notin p.program.data_memory_range

(***************************************************************************)
(* The memory editor of the window (main.py): the two input fields and the *)
(* Write button.                                                           *)
(***************************************************************************)
(* Simulator.parse_address: hexadecimal with an H or h suffix, else decimal *)
parse_address(addr_text0) ==
    LET addr_text == strip(addr_text0, Space)
    IN  IF endswith(upper(addr_text), "#H") THEN py_int(upper(addr_text))
        ELSE py_int10(addr_text)

(* Simulator.write_memory_value: the processor afterwards and the kind of  *)
(* the line added to the log                                               *)
write_memory_value(p, addr_input, value_input) ==
    LET addr_text == strip(addr_input, Space)
        value_text == strip(value_input, Space)
        address == parse_address(addr_text)
        value == parse_address(value_text)
    IN  IF addr_text = <<>> \/ value_text = <<>> THEN [p |-> p, log |-> "ERROR"]
        ELSE IF address.k # "ok" \/ value.k # "ok" THEN [p |-> p, log |-> "ERROR"]
        ELSE IF ~(0 <= address.v /\ address.v < 65536) THEN [p |-> p, log |-> "ERROR"]
        ELSE IF ~(0 <= value.v /\ value.v <= 255) THEN [p |-> p, log |-> "ERROR"]
        ELSE IF is_program_memory(p, address.v) THEN [p |-> p, log |-> "ERROR"]
        ELSE [p |-> [p EXCEPT !.memory = mem_write(@, address.v, value.v)],
              log |-> "SYSTEM"]

(***************************************************************************)
(* The state machine: a caller that assembles sources, loads the result    *)
(* into one processor and calls step().                                    *)
(***************************************************************************)
(***************************************************************************)
(* Sources for the code generator: one instruction and a NOP after it, for *)
(* every register, register pair and mnemonic.                             *)
(***************************************************************************)
RegisterOperands == {"B", "C", "D", "E", "H", "L", "M", "A"}

RegisterAluOps == {"ADD", "ADC", "SUB", "SBB", "ANA", "XRA", "ORA", "CMP"}

(* MOV d, s; there is no MOV M, M *)
MovLines ==
    {<<W("MOV"), Blank, W(ds[1]), Comma, Blank, W(ds[2])>> :
         ds \in (RegisterOperands \X RegisterOperands) \ {<<"M", "M">>}}

(* MVI r, 5AH / INR r / DCR r / ADD r ... CMP r *)
RegisterLines ==
    {<<W("MVI"), Blank, W(r), Comma, Blank, Hex(<<5, 10>>)>> : r \in RegisterOperands}
    \cup {<<W(op), Blank, W(r)>> :
              op \in {"INR", "DCR"} \cup RegisterAluOps, r \in RegisterOperands}

(* LXI rp, 1234H / INX rp / DCX rp / DAD rp / PUSH rp / POP rp / LDAX rp / STAX rp *)
PairLines ==
    {<<W("LXI"), Blank, W(rp), Comma, Blank, Hex(<<1, 2, 3, 4>>)>> :
         rp \in {"B", "D", "H", "SP"}}
    \cup {<<W(op), Blank, W(rp)>> :
              op \in {"INX", "DCX", "DAD"}, rp \in {"B", "D", "H", "SP"}}
    \cup {<<W(op), Blank, W(rp)>> : op \in {"PUSH", "POP"}, rp \in {"B", "D", "H", "PSW"}}
    \cup {<<W(op), Blank, W(rp)>> : op \in {"LDAX", "STAX"}, rp \in {"B", "D"}}

(* op 1234H and op 0ABH for the instructions with a 16-bit operand *)
AddressLines ==
    {<<W(op), Blank, a>> :
         op \in {"LDA", "STA", "LHLD", "SHLD", "CALL"} \cup JumpOps \cup CallOps,
         a \in {Hex(<<1, 2, 3, 4>>), Hex(<<0, 10, 11>>)}}

(* ORG 100H / line / NOP *)
OneLine(line) ==
    <<<<W("ORG"), Blank, Hex(<<1, 0, 0>>)>>,
      line,
      <<W("NOP")>>>>

EncodingPrograms ==
    {OneLine(line) : line \in MovLines \cup RegisterLines \cup PairLines \cup AddressLines
                                  \cup StraightLines}

(* N: EQU 20H / ORG N / HLT  -- the origin is a symbol defined above it *)
OrgSymbol ==
    <<<<W("N"), Colon, Blank, W("EQU"), Blank, Hex(<<2, 0>>)>>,
      <<W("ORG"), Blank, W("N")>>,
      <<W("HLT")>>>>

(* ORG 10H + 2 / HLT  -- the origin is a sum of literals *)
OrgSum ==
    <<<<W("ORG"), Blank, Hex(<<1, 0>>), Blank, W("+"), Blank, Dec(<<2>>)>>,
      <<W("HLT")>>>>

(* ORG 20H / HLT  -- the origin is a literal *)
OrgLiteral ==
    <<<<W("ORG"), Blank, Hex(<<2, 0>>)>>,
      <<W("HLT")>>>>

OrgPrograms == {OrgSymbol, OrgSum, OrgLiteral}

(* MVI A, N / HLT / END / N: EQU 5  -- the symbol is defined below END *)
EquAfterEnd ==
    <<<<W("MVI"), Blank, W("A"), Comma, Blank, W("N")>>,
      <<W("HLT")>>,
      <<W("END")>>,
      <<W("N"), Colon, Blank, W("EQU"), Blank, Dec(<<5>>)>>>>

(* HLT / END / L: NOP / DS 2 / MVI B, 1  -- a label, data and code below END *)
CodeAfterEnd ==
    <<<<W("HLT")>>,
      <<W("END")>>,
      <<W("L"), Colon, Blank, W("NOP")>>,
      <<W("DS"), Blank, Dec(<<2>>)>>,
      <<W("MVI"), Blank, W("B"), Comma, Blank, Dec(<<1>>)>>>>

EndPrograms == {EquAfterEnd, CodeAfterEnd}

(* NOP / ORG 0 / HLT  -- the second ORG goes back to an address in use *)
OrgBack ==
    <<<<W("NOP")>>,
      <<W("ORG"), Blank, Dec(<<0>>)>>,
      <<W("HLT")>>>>

(* ORG 10H / NOP / ORG 20H / HLT  -- two origins apart from each other *)
OrgApart ==
    <<<<W("ORG"), Blank, Hex(<<1, 0>>)>>,
      <<W("NOP")>>,
      <<W("ORG"), Blank, Hex(<<2, 0>>)>>,
      <<W("HLT")>>>>

LinePrograms == {OrgBack, OrgApart}

(* NOP / X: EQU 5 / LXI H, X / HLT  -- X is a symbol (5) and a label (1) *)
NameInBoth ==
    <<<<W("NOP")>>,
      <<W("X"), Colon, Blank, W("EQU"), Blank, Dec(<<5>>)>>,
      <<W("LXI"), Blank, W("H"), Comma, Blank, W("X")>>,
      <<W("HLT")>>>>

(* NOP / X: NOP / LXI H, X / HLT  -- X is a label only *)
NameLabel ==
    <<<<W("NOP")>>,
      <<W("X"), Colon, Blank, W("NOP")>>,
      <<W("LXI"), Blank, W("H"), Comma, Blank, W("X")>>,
      <<W("HLT")>>>>

(* NOP / 10H: EQU 5 / LXI H, 10H / HLT  -- a symbol that reads as a numeral *)
NumeralSymbol ==
    <<<<W("NOP")>>,
      <<Hex(<<1, 0>>), Colon, Blank, W("EQU"), Blank, Dec(<<5>>)>>,
      <<W("LXI"), Blank, W("H"), Comma, Blank, Hex(<<1, 0>>)>>,
      <<W("HLT")>>>>

(* NOP / 10H: NOP / LXI H, 10H / HLT  -- a label that reads as a numeral *)
NumeralLabel ==
    <<<<W("NOP")>>,
      <<Hex(<<1, 0>>), Colon, Blank, W("NOP")>>,
      <<W("LXI"), Blank, W("H"), Comma, Blank, Hex(<<1, 0>>)>>,
      <<W("HLT")>>>>

(* NOP / LXI H, 12H / LXI B, 12 / HLT  -- numerals, no name defined *)
NumeralPlain ==
    <<<<W("NOP")>>,
      <<W("LXI"), Blank, W("H"), Comma, Blank, Hex(<<1, 2>>)>>,
      <<W("LXI"), Blank, W("B"), Comma, Blank, Dec(<<1, 2>>)>>,
      <<W("HLT")>>>>

(* NOP / X: EQU 5 / LXI H, X + 1 / HLT  -- the name inside an expression *)
NameInSum ==
    <<<<W("NOP")>>,
      <<W("X"), Colon, Blank, W("EQU"), Blank, Dec(<<5>>)>>,
      <<W("LXI"), Blank, W("H"), Comma, Blank, W("X"), Blank, W("+"), Blank, Dec(<<1>>)>>,
      <<W("HLT")>>>>

ResolvePrograms ==
    {NameInBoth, NameLabel, NumeralSymbol, NumeralLabel, NumeralPlain, NameInSum}

(* the expressions of the EQU lines: 5, P, Q, P + 1, Q + 1, L, FOO, 1 / 0 *)
EquExpressions ==
    {<<Dec(<<5>>)>>, <<W("P")>>, <<W("Q")>>, <<W("L")>>, <<W("FOO")>>,
     <<W("P"), Blank, W("+"), Blank, Dec(<<1>>)>>,
     <<W("Q"), Blank, W("+"), Blank, Dec(<<1>>)>>,
     <<Dec(<<1>>), Blank, W("/"), Blank, Dec(<<0>>)>>}

(* P: EQU p / Q: EQU q / NOP / L: HLT *)
EquSource(p, q) ==
    <<<<W("P"), Colon, Blank, W("EQU"), Blank>> \o p,
      <<W("Q"), Colon, Blank, W("EQU"), Blank>> \o q,
      <<W("NOP")>>,
      <<W("L"), Colon, Blank, W("HLT")>>>>

EquPrograms == {EquSource(p, q) : p \in EquExpressions, q \in EquExpressions}

(* the two-operand instructions: MOV A, B / MVI A, 05H / LXI H, 1234H *)
TwoOperandForms ==
    {<<"MOV", "A", W("B")>>, <<"MVI", "A", Hex(<<0, 5>>)>>, <<"LXI", "H", Hex(<<1, 2, 3, 4>>)>>}

(* OP X,Y when separator is the comma, OP X, Y when it is comma and blank *)
TwoOperand(form, separator) ==
    <<W(form[1]), Blank, W(form[2])>> \o separator \o <<form[3]>>

CommaCompact == {OneLine(TwoOperand(form, <<Comma>>)) : form \in TwoOperandForms}

CommaSpaced == {OneLine(TwoOperand(form, <<Comma, Blank>>)) : form \in TwoOperandForms}

CommaPrograms == CommaCompact \cup CommaSpaced

AsmPrograms ==
    Programs \cup EncodingPrograms \cup OrgPrograms \cup EndPrograms \cup LinePrograms
        \cup ResolvePrograms \cup EquPrograms \cup CommaPrograms

(***************************************************************************)
(* Inputs of the memory editor: programs with a DS region, and the texts   *)
(* typed into the address and value fields.                                *)
(***************************************************************************)
(* MVI A, 1 / ORG 0 / DS 2 / HLT  -- the DS region covers the MVI *)
DsOverCode ==
    <<<<W("MVI"), Blank, W("A"), Comma, Blank, Dec(<<1>>)>>,
      <<W("ORG"), Blank, Dec(<<0>>)>>,
      <<W("DS"), Blank, Dec(<<2>>)>>,
      <<W("HLT")>>>>

UiPrograms == {DsOverCode, DsPlain, Unknown}

(* 1, 2, 300Ah, 65536, -1, 1A *)
AddressTexts ==
    {<<Blank, Dec(<<1>>)>>, <<Dec(<<2>>)>>, <<Lhex(<<3, 0, 0, 10>>)>>,
     <<Dec(<<6, 5, 5, 3, 6>>)>>, <<W("-"), Dec(<<1>>)>>, <<Dec(<<1, 10>>)>>}

(* 7, 256, nothing *)
ValueTexts == {<<Dec(<<7>>), Blank>>, <<Dec(<<2, 5, 6>>)>>, <<>>}

(***************************************************************************)
(* Inputs of _evaluate_expression: a op1 b op2 c over numerals, a symbol,  *)
(* a label and an undefined name, with or without blanks round the         *)
(* operators, and the tables the operands are resolved in.                 *)
(***************************************************************************)
EvalSymbols == (<<W("N")>> :> 3)

EvalLabels == (<<W("L")>> :> 5)

(* 0, 2, 0AH, the symbol N, the label L, the undefined name X *)
Operands == {Dec(<<0>>), Dec(<<2>>), Hex(<<0, 10>>), W("N"), W("L"), W("X")}

Expression(operands, operators, spaced) ==
    LET gap == IF spaced THEN <<Blank>> ELSE <<>>
    IN  <<operands[1]>> \o gap \o <<W(operators[1])>> \o gap \o <<operands[2]>>
            \o gap \o <<W(operators[2])>> \o gap \o <<operands[3]>>

NotEvaluated == R("pending", 0)

NoEvaluation == [operands |-> <<>>, operators |-> <<>>, expr |-> <<>>, value |-> NotEvaluated]

EvalInputs ==
    {[operands |-> <<a, b, c>>, operators |-> <<op1, op2>>,
      expr |-> Expression(<<a, b, c>>, <<op1, op2>>, spaced), value |-> NotEvaluated] :
         a \in Operands, b \in Operands, c \in Operands,
         op1 \in Operators, op2 \in Operators, spaced \in BOOLEAN}

MaxAssemblies == 2
MaxLoads == 2
MaxSteps == 6
MaxWrites == 2

VARIABLES
    code,             \* the source of the latest assemble() call
    loaded_code,      \* the source whose output the processor was loaded with
    assembly,         \* its result: k, line, output (the AssemblyOutput)
    registers, flags, memory, io_ports, halted, error, last_instruction,
    program,          \* the processor's copies of the output's tables
    shares_memory,    \* self.memory is the bytearray of assembly.output
    status,           \* what the latest step() returned ("" before any)
    last_op,          \* the latest call: "new", "assemble", "load", "step",
                      \* "evaluate", "compile", "write"
    steps,            \* step() calls since the latest load_program
    loads, assemblies,
    evaluation,       \* a call of the assembler's _evaluate_expression: input, result
    edit,             \* the latest use of the memory editor: the two fields, the log kind
    writes            \* uses of the memory editor so far

vars == <<code, loaded_code, assembly, registers, flags, memory, io_ports, halted, error,
          last_instruction, program, shares_memory, status, last_op, steps,
          loads, assemblies, evaluation, edit, writes>>

machine == <<registers, flags, memory, io_ports>>

processor ==
    [registers |-> registers, flags |-> flags, memory |-> memory,
     io_ports |-> io_ports, halted |-> halted, error |-> error,
     last_instruction |-> last_instruction, program |-> program]

SetProcessor(p) ==
    /\ registers' = p.registers
    /\ flags' = p.flags
    /\ memory' = p.memory
    /\ io_ports' = p.io_ports
    /\ halted' = p.halted
    /\ error' = p.error
    /\ last_instruction' = p.last_instruction
    /\ program' = p.program

NoEdit == [addr_text |-> <<>>, value_text |-> <<>>, log |-> ""]

Constructed ==
    /\ code = <<>>
    /\ loaded_code = <<>>
    /\ assembly = [k |-> "none", line |-> 0, output |-> NoOutput]
    /\ registers = new_processor.registers
    /\ flags = new_processor.flags
    /\ memory = new_processor.memory
    /\ io_ports = new_processor.io_ports
    /\ halted = new_processor.halted
    /\ error = new_processor.error
    /\ last_instruction = new_processor.last_instruction
    /\ program = new_processor.program
    /\ shares_memory = FALSE
    /\ status = ""
    /\ last_op = "new"
    /\ steps = 0
    /\ loads = 0
    /\ assemblies = 0
    /\ edit = NoEdit
    /\ writes = 0

Init ==
    /\ Constructed
    /\ evaluation = NoEvaluation

(* assembler.assemble(source) *)
AssembleFrom(sources) ==
    /\ assemblies < MaxAssemblies
    /\ \E source \in sources :
           /\ code' = source
           /\ assembly' = assemble(source)
    /\ shares_memory' = FALSE
    /\ last_op' = "assemble"
    /\ assemblies' = assemblies + 1
    /\ UNCHANGED <<loaded_code, registers, flags, memory, io_ports, halted, error,
                   last_instruction, program, status, steps, loads, evaluation, edit,
                   writes>>

Assemble == AssembleFrom(IF assemblies = 0 THEN Programs ELSE SecondPrograms)

(* one assemble() call, of a program of the instruction families *)
CpuAssemble == AssembleFrom(IF assemblies = 0 THEN CpuPrograms ELSE {})

(* one assemble() call, of a source for the code generator *)
AsmAssemble == AssembleFrom(IF assemblies = 0 THEN AsmPrograms ELSE SecondPrograms)

(* processor.load_program(output) with the output of a successful assemble *)
LoadProgram ==
    /\ assembly.k = "ok"
    /\ loads < MaxLoads
    /\ SetProcessor(load_program(processor, assembly.output))
    /\ loaded_code' = code
    /\ shares_memory' = TRUE
    /\ status' = ""
    /\ last_op' = "load"
    /\ steps' = 0
    /\ loads' = loads + 1
    /\ UNCHANGED <<code, assembly, assemblies, evaluation, edit, writes>>

(* processor.step() *)
Step ==
    /\ steps < MaxSteps
    /\ \E r \in {step(processor)} :
           /\ SetProcessor(r.p)
           /\ status' = r.status
           /\ assembly' = IF shares_memory
                          THEN [assembly EXCEPT !.output.memory = r.p.memory]
                          ELSE assembly
    /\ last_op' = "step"
    /\ steps' = steps + 1
    /\ UNCHANGED <<code, loaded_code, shares_memory, loads, assemblies, evaluation, edit,
                   writes>>

Next == Assemble \/ LoadProgram \/ Step

Spec == Init /\ [][Next]_vars

(* the same caller, given the programs of the instruction families *)
CpuNext == CpuAssemble \/ LoadProgram \/ Step

CpuSpec == Init /\ [][CpuNext]_vars

(* a caller that only assembles *)
AsmNext == AsmAssemble

AsmSpec == Init /\ [][AsmNext]_vars

(* _evaluate_expression(expr, output, line_num) applied to each input *)
EvalInit ==
    /\ Constructed
    /\ evaluation \in EvalInputs

Evaluate ==
    /\ evaluation.value = NotEvaluated
    /\ evaluation' = [evaluation EXCEPT
                          !.value = asm_evaluate_expression(evaluation.expr, EvalSymbols,
                                                            EvalLabels)]
    /\ last_op' = "evaluate"
    /\ UNCHANGED <<code, loaded_code, assembly, registers, flags, memory, io_ports, halted,
                   error, last_instruction, program, shares_memory, status, steps, loads,
                   assemblies, edit, writes>>

EvalNext == Evaluate

(* the window: Assemble, Step, and the Write button of the memory editor   *)
(* with the two fields filled in                                           *)
(* Simulator.compile_program: assemble the editor's text and, unless that  *)
(* raised, load the output into a new processor                            *)
CompileProgram ==
    /\ assemblies < MaxAssemblies
    /\ \E source \in UiPrograms :
           \E r \in {assemble(source)} :
               /\ code' = source
               /\ assembly' = r
               /\ IF r.k = "ok"
                  THEN /\ SetProcessor(load_program(new_processor, r.output))
                       /\ loaded_code' = source
                       /\ status' = ""
                       /\ steps' = 0
                       /\ loads' = loads + 1
                  ELSE UNCHANGED <<registers, flags, memory, io_ports, halted, error,
                                   last_instruction, program, loaded_code, status, steps,
                                   loads>>
               /\ shares_memory' = (r.k = "ok")
    /\ last_op' = "compile"
    /\ assemblies' = assemblies + 1
    /\ UNCHANGED <<evaluation, edit, writes>>

WriteMemory ==
    /\ writes < MaxWrites
    /\ \E addr_text \in AddressTexts, value_text \in ValueTexts :
           \E r \in {write_memory_value(processor, addr_text, value_text)} :
               /\ SetProcessor(r.p)
               /\ edit' = [addr_text |-> addr_text, value_text |-> value_text, log |-> r.log]
               /\ assembly' = IF shares_memory
                              THEN [assembly EXCEPT !.output.memory = r.p.memory]
                              ELSE assembly
    /\ last_op' = "write"
    /\ writes' = writes + 1
    /\ UNCHANGED <<code, loaded_code, shares_memory, status, steps, loads, assemblies,
                   evaluation>>

UiNext == CompileProgram \/ Step \/ WriteMemory

UiSpec == Init /\ [][UiNext]_vars

EvalSpec == EvalInit /\ [][EvalNext]_vars

(***************************************************************************)
(* Properties of step() and load_program().                                *)
(***************************************************************************)

(* C1: halted is terminal.  A step() on a halted processor returns HALT    *)
(* and leaves registers (PC and SP among them), flags, memory, io_ports,   *)
(* error and last_instruction as they were; the processor stays halted.    *)
C1_HaltedIsTerminal ==
    [][(halted /\ last_op' = "step") =>
          /\ status' = "HALT"
          /\ halted'
          /\ registers' = registers
          /\ flags' = flags
          /\ memory' = memory
          /\ io_ports' = io_ports
          /\ error' = error
          /\ last_instruction' = last_instruction]_vars

(* HLT alone: the first step() executes HLT, the second finds it halted *)
C1_Witness ==
    /\ loaded_code = HltOnly
    /\ last_op = "step"
    /\ steps = 2
    /\ halted
    /\ status = "HALT"

(* C2: error is sticky.  While an error is recorded a step() returns ERROR *)
(* and changes no register, flag, memory byte or port; the error stays as  *)
(* it is under every operation but load_program, which clears it.          *)
C2_ErrorIsSticky ==
    [][/\ (error # NoError /\ last_op' = "step") =>
              /\ status' = "ERROR"
              /\ registers' = registers
              /\ flags' = flags
              /\ memory' = memory
              /\ io_ports' = io_ports
       /\ (error # NoError /\ last_op' # "load") => error' = error
       /\ (last_op' = "load") => error' = NoError]_vars

(* NOP alone: step 2 finds no instruction at 1, step 3 meets that error *)
C2_Witness ==
    /\ loaded_code = NopOnly
    /\ last_op = "step"
    /\ steps = 3
    /\ status = "ERROR"
    /\ error = "No instruction at address"
    /\ registers["PC"] = 1

(* C3: load_program resets all processor state.  Right after a             *)
(* load_program, on a fresh or a used processor, A, B, C, D, E, H, L are   *)
(* 0, SP is 0xFFFF, the five flags are 0, every port is 0, halted is       *)
(* false, error is empty and PC is the output's starting_address.          *)
C3_LoadResetsAllState ==
    (last_op = "load") =>
        /\ \A r \in {"A", "B", "C", "D", "E", "H", "L"} : registers[r] = 0
        /\ registers["SP"] = 65535
        /\ \A f \in {"S", "Z", "AC", "P", "C"} : flags[f] = 0
        /\ \A port \in 0..(PortCount - 1) : mem_read(io_ports, port) = 0
        /\ ~halted
        /\ error = NoError
        /\ registers["PC"] = assembly.output.starting_address

(* C4: the literal program ORG 2000H / MVI A,05H / HLT assembles to 3E 05  *)
(* 76 at 0x2000; loaded and stepped, A is 5 after the first step() and     *)
(* the processor is halted after the third.                                *)
C4_RoundTrip ==
    /\ (code = RoundTrip /\ last_op = "assemble") =>
           /\ assembly.k = "ok"
           /\ mem_read(assembly.output.memory, 8192) = 62
           /\ mem_read(assembly.output.memory, 8193) = 5
           /\ mem_read(assembly.output.memory, 8194) = 118
    /\ (loaded_code = RoundTrip /\ last_op = "step" /\ steps = 1) => registers["A"] = 5
    /\ (loaded_code = RoundTrip /\ last_op = "step" /\ steps = 3) => halted

(* C5: a line NAME EQU <expr> without a colon is accepted, binds           *)
(* symbols[NAME] to the value modulo 2^16, emits no byte and leaves the    *)
(* location counter alone (in N EQU 5 / MVI A, N / HLT the MVI is at 0).   *)
C5_PlainEquAccepted ==
    (code = EquPlain /\ last_op = "assemble") =>
        /\ assembly.k = "ok"
        /\ <<W("N")>> \in DOMAIN assembly.output.symbols
        /\ assembly.output.symbols[<<W("N")>>] = 5
        /\ assembly.output.line_to_address_map = (2 :> 0) @@ (3 :> 2)
        /\ assembly.output.program_memory_range = {0, 1, 2}

(* C6: EQU resolution does not depend on the order of the EQU lines.  Two  *)
(* sources that differ only in the order of their EQU lines and that both  *)
(* assemble end with the same symbols table; A EQU B + 1 with B EQU 5      *)
(* gives symbols[A] = 6 whenever the assembly succeeds.                    *)
C6_EquOrderIndependent ==
    LET equ_line(line) == \E i \in 1..Len(line) : line[i] = W("EQU")
        equ_lines(c) == {c[i] : i \in {j \in 1..Len(c) : equ_line(c[j])}}
        reordered(c, d) ==
            /\ Len(c) = Len(d)
            /\ \A i \in 1..Len(c) : (equ_line(c[i]) /\ equ_line(d[i])) \/ c[i] = d[i]
            /\ equ_lines(c) = equ_lines(d)
        same_symbols(other) ==
            other.k = "ok" => other.output.symbols = assembly.output.symbols
    IN  (last_op = "assemble" /\ assembly.k = "ok") =>
            /\ \A d \in Programs : reordered(code, d) => same_symbols(assemble(d))
            /\ (code \in {EquChainAB, EquChainBA, EquColonAB, EquColonBA}) =>
                   assembly.output.symbols[<<W("A")>>] = 6

(* C7: a source with a MOV M,M line fails to assemble with a syntax error, *)
(* whatever precedes or follows the line.                                  *)
C7_MovMMRejected ==
    LET mov_m_m(line) == line \in {<<W("MOV"), Blank, W("M"), Comma, W("M")>>,
                                   <<W("MOV"), Blank, W("M"), Comma, Blank, W("M")>>}
    IN  (last_op = "assemble" /\ \E i \in 1..Len(code) : mov_m_m(code[i])) =>
            assembly.k = "SyntaxError"

(* C8: a failing assemble() fails with a syntax error that carries the     *)
(* 1-based number of a source line, never in another way, and returns no   *)
(* output.                                                                 *)
C8_OnlySyntaxErrors ==
    (last_op = "assemble" /\ assembly.k # "ok") =>
        /\ assembly.k = "SyntaxError"
        /\ assembly.line \in 1..Len(code)
        /\ assembly.output = NoOutput

(* C9: when no parsed_program entry has the address in PC, step() records  *)
(* the error "no instruction at address" and returns ERROR; PC does not    *)
(* move and nothing is executed in place of the missing instruction.       *)
C9_NoInstructionIsError ==
    [][(/\ last_op' = "step"
        /\ ~halted
        /\ error = NoError
        /\ \A i \in 1..Len(program.parsed_program) :
               program.parsed_program[i][1] # registers["PC"]) =>
          /\ status' = "ERROR"
          /\ error' = "No instruction at address"
          /\ ~halted'
          /\ registers' = registers
          /\ flags' = flags
          /\ memory' = memory
          /\ io_ports' = io_ports]_vars

(* MVI A, 1 / JMP 1234H / HLT: the third step() finds nothing at 0x1234 *)
C9_Witness ==
    /\ loaded_code = JumpAway
    /\ last_op = "step"
    /\ steps = 3
    /\ registers["PC"] = 4660
    /\ registers["A"] = 1
    /\ status = "ERROR"
    /\ error = "No instruction at address"

(* C10: the status step() returns agrees with the fields: HALT iff halted  *)
(* afterwards, ERROR iff an error is recorded afterwards, OK otherwise;    *)
(* halted and error are never both set; halted becomes true only in a      *)
(* step() that executes HLT.                                               *)
C10_StatusAgreesWithFields ==
    /\ [](/\ ~(halted /\ error # NoError)
          /\ (last_op = "step") =>
                 /\ status \in {"OK", "HALT", "ERROR"}
                 /\ (status = "HALT") <=> halted
                 /\ (status = "ERROR") <=> (error # NoError)
                 /\ (status = "OK") <=> (~halted /\ error = NoError))
    /\ [][(~halted /\ halted') =>
             /\ last_op' = "step"
             /\ status' = "HALT"
             /\ \E i \in 1..Len(program.parsed_program) :
                    /\ program.parsed_program[i][1] = registers["PC"]
                    /\ upper(program.parsed_program[i][2][1]) = <<W("HLT")>>]_vars

(* ORG 2000H / MVI A, 05H / HLT: OK from the MVI, then HALT from the HLT *)
C10_Witness ==
    /\ loaded_code = RoundTripSpaced
    /\ last_op = "step"
    /\ steps = 2
    /\ status = "HALT"
    /\ halted
    /\ error = NoError
    /\ registers["A"] = 5

(***************************************************************************)
(* Properties of the stack instructions.                                   *)
(***************************************************************************)

(* C11: PUSH rp immediately followed by POP rp, for rp in B, D, H, PSW and *)
(* any SP, wrapping included.  The PUSH leaves the pair (for PSW: A and    *)
(* the five flags) alone and makes SP its value minus 2 modulo 65536; the  *)
(* POP that follows leaves the pair with that same value and puts SP back. *)
C11_PushPopRestores ==
    [][\A rp \in {"B", "D", "H", "PSW"} :
          LET pair == CASE rp = "B" -> <<registers["B"], registers["C"]>>
                        [] rp = "D" -> <<registers["D"], registers["E"]>>
                        [] rp = "H" -> <<registers["H"], registers["L"]>>
                        [] rp = "PSW" -> <<registers["A"], flags>>
              pushed == /\ last_op = "step"
                        /\ status = "OK"
                        /\ last_instruction = <<W("PUSH"), Blank, W(rp)>>
              popped == /\ last_op = "step"
                        /\ status = "OK"
                        /\ last_instruction = <<W("POP"), Blank, W(rp)>>
          IN  /\ (~halted /\ error = NoError /\ pushed') =>
                     /\ pair' = pair
                     /\ registers["SP"]' = (registers["SP"] - 2) % 65536
              /\ (pushed /\ popped') =>
                     /\ pair' = pair
                     /\ registers["SP"]' = (registers["SP"] + 2) % 65536
      ]_vars

(* PUSH PSW / POP PSW with SP = 0: the bytes went to 0xFFFF and 0xFFFE *)
C11_Witness ==
    /\ loaded_code = PushPopPSW(Hex(<<0, 15, 15>>), Dec(<<0>>))
    /\ last_op = "step"
    /\ steps = 5
    /\ status = "OK"
    /\ last_instruction = <<W("POP"), Blank, W("PSW")>>
    /\ registers["A"] = 0
    /\ flags = [S |-> 0, Z |-> 1, AC |-> 1, P |-> 1, C |-> 1]
    /\ registers["SP"] = 0
    /\ mem_read(memory, 65535) = 0
    /\ mem_read(memory, 65534) = 87

(* C12, as stated: a CALL at address a pushes a + 3, and the RET that      *)
(* finds SP and the two bytes as the CALL left them sets PC to a + 3 and   *)
(* SP to its value before the CALL, for every a and SP of 16 bits.         *)
C12_CallRetReturns ==
    [][LET called == /\ last_op = "step"
                     /\ status = "OK"
                     /\ last_instruction # <<>>
                     /\ last_instruction[1] = W("CALL")
           returned == /\ last_op = "step"
                       /\ status = "OK"
                       /\ last_instruction = <<W("RET")>>
           top == mem_read(memory, (registers["SP"] + 1) % 65536) * 256
                      + mem_read(memory, registers["SP"])
       IN  /\ (~halted /\ error = NoError /\ registers["PC"] < 65536 /\ called') =>
                  /\ top' = registers["PC"] + 3
                  /\ registers["SP"]' = (registers["SP"] - 2) % 65536
           /\ (~halted /\ error = NoError /\ returned') =>
                  /\ registers["PC"]' = top
                  /\ registers["SP"]' = (registers["SP"] + 2) % 65536
      ]_vars

(* C12, amended: the return address is a + 3 modulo 65536 (a CALL at       *)
(* 0xFFFD returns to 0x0000).                                              *)
C12_CallRetReturnsMod ==
    [][LET called == /\ last_op = "step"
                     /\ status = "OK"
                     /\ last_instruction # <<>>
                     /\ last_instruction[1] = W("CALL")
           returned == /\ last_op = "step"
                       /\ status = "OK"
                       /\ last_instruction = <<W("RET")>>
           top == mem_read(memory, (registers["SP"] + 1) % 65536) * 256
                      + mem_read(memory, registers["SP"])
       IN  /\ (~halted /\ error = NoError /\ registers["PC"] < 65536 /\ called') =>
                  /\ top' = (registers["PC"] + 3) % 65536
                  /\ registers["SP"]' = (registers["SP"] - 2) % 65536
           /\ (~halted /\ error = NoError /\ returned') =>
                  /\ registers["PC"]' = top
                  /\ registers["SP"]' = (registers["SP"] + 2) % 65536
      ]_vars

(* CALL at 0xFFFA with SP = 1: the bytes went to 0x0000 and 0xFFFF, and    *)
(* the RET came back to 0xFFFD with SP = 1 again                           *)
C12_Witness ==
    /\ loaded_code = CallRetAt(Hex(<<0, 15, 15, 15, 7>>), Dec(<<1>>), <<<<W("HLT")>>>>)
    /\ last_op = "step"
    /\ steps = 3
    /\ status = "OK"
    /\ last_instruction = <<W("RET")>>
    /\ registers["PC"] = 65533
    /\ registers["SP"] = 1
    /\ mem_read(memory, 0) = 255
    /\ mem_read(memory, 65535) = 253

(***************************************************************************)
(* Properties of single instructions.                                      *)
(***************************************************************************)

(* C13: one step() of MVI R, val with R in A, B, C, D, E, H, L returns OK, *)
(* leaves registers[R] = val mod 256 and PC advanced by exactly 2; MVI M,  *)
(* val writes val mod 256 to memory[HL] and changes no register but PC.    *)
C13_MviLoadsImmediate ==
    [][\A o \in Immediates :
          /\ \A reg \in {"A", "B", "C", "D", "E", "H", "L"} :
                 (loaded_code = Mvi(reg, o[1]) /\ steps = 1 /\ last_op' = "step") =>
                     /\ status' = "OK"
                     /\ registers'[reg] = o[2] % 256
                     /\ registers'["PC"] = registers["PC"] + 2
          /\ (loaded_code = Mvi("M", o[1]) /\ steps = 1 /\ last_op' = "step") =>
                 /\ status' = "OK"
                 /\ mem_read(memory', registers["H"] * 256 + registers["L"]) = o[2] % 256
                 /\ registers' = [registers EXCEPT !["PC"] = @ + 2]
      ]_vars

(* MVI M, 1234H with HL = 0x4000: memory[0x4000] is 0x34 *)
C13_Witness ==
    /\ loaded_code = Mvi("M", Hex(<<1, 2, 3, 4>>))
    /\ last_op = "step"
    /\ steps = 2
    /\ status = "OK"
    /\ registers["H"] = 64
    /\ registers["PC"] = 5
    /\ mem_read(memory, 16384) = 52

(***************************************************************************)
(* Properties of the assembler's expression evaluation.                    *)
(***************************************************************************)

(* C14: evaluation is strictly left to right, without precedence: with     *)
(* resolvable operands a, b, c and any two of the operators + - * / & | ^  *)
(* << >>, a op1 b op2 c evaluates to (a op1 b) op2 c; when an operand is   *)
(* not resolvable the result is the not-resolvable signal, never an        *)
(* exception.                                                              *)
C14_LeftToRight ==
    LET number(operand) ==
            CASE operand = Dec(<<0>>) -> 0
              [] operand = Dec(<<2>>) -> 2
              [] operand = Hex(<<0, 10>>) -> 10
              [] operand = W("N") -> 3
              [] operand = W("L") -> 5
        floor_div(x, y) == IF y > 0 THEN x \div y ELSE 0
        shifted_right(x, n) == IF x >= 0 THEN x \div Pow2(n) ELSE 0 - ((Pow2(n) - 1 - x) \div Pow2(n))
        bits(x) == x % 1048576
        signed(x) == IF x >= 524288 THEN x - 1048576 ELSE x
        applied(op, x, y) ==
            CASE op = "+" -> x + y
              [] op = "-" -> x - y
              [] op = "*" -> x * y
              [] op = "/" -> floor_div(x, y)
              [] op = "&" -> signed(BitAnd(bits(x), bits(y)))
              [] op = "|" -> signed(BitOr(bits(x), bits(y)))
              [] op = "^" -> signed(BitXor(bits(x), bits(y)))
              [] op = "<<" -> x * Pow2(y)
              [] op = ">>" -> shifted_right(x, y)
        a == evaluation.operands[1]
        b == evaluation.operands[2]
        c == evaluation.operands[3]
        op1 == evaluation.operators[1]
        op2 == evaluation.operators[2]
    IN  (last_op = "evaluate") =>
            IF W("X") \in {a, b, c}
            THEN evaluation.value = None
            ELSE /\ evaluation.value.k = "ok"
                 /\ evaluation.value.v = applied(op2, applied(op1, number(a), number(b)), number(c))

(* C15: after ANA or ANI the flags are AC = 1 and C = 0, after ORA, ORI,   *)
(* XRA or XRI they are AC = 0 and C = 0, whatever A, the operand and the   *)
(* flags were; A holds the AND, OR or XOR of the two bytes, and S, Z and P *)
(* are bit 7, the zero test and the even parity of that byte.              *)
C15_LogicFlags ==
    [][LET executed(names) ==
               /\ ~halted /\ error = NoError
               /\ last_op' = "step"
               /\ status' = "OK"
               /\ \E name \in names : last_instruction'[1] = W(name)
           result(opcode, x, y) ==
               CASE opcode \in {"ANA", "ANI"} -> BitAnd(x, y)
                 [] opcode \in {"ORA", "ORI"} -> BitOr(x, y)
                 [] opcode \in {"XRA", "XRI"} -> BitXor(x, y)
           ones(x) == Cardinality({i \in 0..7 : (x \div Pow2(i)) % 2 = 1})
           reflects ==
               /\ flags'.S = (IF registers'["A"] >= 128 THEN 1 ELSE 0)
               /\ flags'.Z = (IF registers'["A"] = 0 THEN 1 ELSE 0)
               /\ flags'.P = (IF ones(registers'["A"]) % 2 = 0 THEN 1 ELSE 0)
       IN  /\ executed({"ANA", "ANI"}) => (flags'.AC = 1 /\ flags'.C = 0 /\ reflects)
           /\ executed({"ORA", "ORI", "XRA", "XRI"}) =>
                  (flags'.AC = 0 /\ flags'.C = 0 /\ reflects)
           /\ \A addend \in Addends, o \in LogicOperands :
                  /\ \A opcode \in {"ANA", "ORA", "XRA"} :
                         (loaded_code = LogicReg(opcode, addend, o[1]) /\ steps = 3
                              /\ last_op' = "step") =>
                             /\ status' = "OK"
                             /\ registers'["A"] = result(opcode, registers["A"], o[2])
                  /\ \A opcode \in {"ANI", "ORI", "XRI"} :
                         (loaded_code = LogicImm(opcode, addend, o[1]) /\ steps = 2
                              /\ last_op' = "step") =>
                             /\ status' = "OK"
                             /\ registers'["A"] = result(opcode, registers["A"], o[2])
      ]_vars

(* ANI 0AAH with A = 55H, C = 1, AC = 1 before: A = 0, Z = 1, P = 1, C = 0 *)
C15_Witness ==
    /\ loaded_code = LogicImm("ANI", Hex(<<5, 6>>), Hex(<<0, 10, 10>>))
    /\ last_op = "step"
    /\ steps = 3
    /\ status = "OK"
    /\ registers["A"] = 0
    /\ flags = [S |-> 0, Z |-> 1, AC |-> 1, P |-> 1, C |-> 0]

(***************************************************************************)
(* Properties of the assembler's directives and tables.                    *)
(***************************************************************************)

(* C16: DS n at location counter a adds exactly a..a+n-1 to                *)
(* data_memory_range, moves the location counter to a+n (the next          *)
(* instruction is emitted there), writes no byte and adds no               *)
(* parsed_program entry; DS 10 after ORG 3000H reserves 0x3000..0x3009 and *)
(* the next instruction is at 0x300A.  Each case is a source with one DS,  *)
(* followed by HLT, with a and n (in DS N, n is the value of N).           *)
C16_DsReserves ==
    LET DsCases == {<<DsPlain, 12288, 10>>, <<DsLabelled, 12288, 10>>,
                    <<DsSymbol, 0, 4>>, <<DsPending, 8, 2>>}
        reserved(output, a, n) ==
            /\ output.data_memory_range = a..(a + n - 1)
            /\ Len(output.parsed_program) = 1
            /\ output.parsed_program[1][1] = a + n
            /\ mem_read(output.memory, a + n) = 118
            /\ \A x \in DOMAIN output.memory : x # a + n => output.memory[x] = 0
    IN  \A case \in DsCases :
            (code = case[1] /\ last_op = "assemble") =>
                /\ assembly.k = "ok"
                /\ reserved(assembly.output, case[2], case[3])

(* C17: is_program_memory(x) is true exactly for the addresses in          *)
(* program_memory_range that are not in data_memory_range, so it is false  *)
(* for every address of a DS region even where an instruction byte was     *)
(* emitted, and a use of the memory editor never changes a byte for which  *)
(* is_program_memory is true (it changes at most the byte addressed).      *)
C17_ProgramMemoryProtected ==
    /\ [](\A x \in program.program_memory_range \cup program.data_memory_range
                    \cup {0, 1, 12298, 65535} :
             /\ is_program_memory(processor, x)
                    <=> (x \in program.program_memory_range
                         /\ x \notin program.data_memory_range)
             /\ x \in program.data_memory_range => ~is_program_memory(processor, x))
    /\ [][last_op' = "write" =>
              \A x \in DOMAIN memory \cup DOMAIN memory' \cup program.program_memory_range :
                  (x \in program.program_memory_range /\ x \notin program.data_memory_range)
                      => mem_read(memory', x) = mem_read(memory, x)]_vars

(* the editor has overwritten the operand byte of MVI A, 1, which lies in  *)
(* the DS region of DsOverCode, and address 2 (HLT) is still protected     *)
C17_Witness ==
    /\ last_op = "write"
    /\ loaded_code = DsOverCode
    /\ edit.log = "SYSTEM"
    /\ parse_address(edit.addr_text).v = 1
    /\ 1 \in program.program_memory_range /\ 1 \in program.data_memory_range
    /\ mem_read(memory, 1) = 7
    /\ is_program_memory(processor, 2)

(* C18: program_end_address of a successful assembly is the address just   *)
(* after the last emitted instruction, its address plus its encoded        *)
(* length, whatever ORG or DS directives follow it in the source.          *)
C18_ProgramEnd ==
    LET parsed_program == assembly.output.parsed_program
        last == parsed_program[Len(parsed_program)]
    IN  (assembly.k = "ok" /\ parsed_program # <<>>)
            => assembly.output.program_end_address
                   = last[1] + first_pass_size(name_of(last[2][1]))

(* the operands of the ORG lines of a source, in order, up to its END line *)
RECURSIVE org_operands(_, _)
org_operands(source, line_num) ==
    IF line_num > Len(source) THEN <<>>
    ELSE LET words == split(upper(remove_comment(source[line_num])))
         IN  IF words # <<>> /\ words[1] = <<W("END")>> THEN <<>>
             ELSE (IF Len(words) >= 2 /\ words[1] = <<W("ORG")>>
                   THEN <<py_int(words[2]).v>> ELSE <<>>)
                  \o org_operands(source, line_num + 1)

(* C19: starting_address of a successful assembly is the operand of the    *)
(* first ORG directive of the source (the lines up to END), whatever ORG   *)
(* follows it, and 0 when the source has no ORG; after load_program PC has *)
(* that value.                                                             *)
C19_StartingAddress ==
    LET first_org(source) ==
            IF org_operands(source, 1) = <<>> THEN 0 ELSE org_operands(source, 1)[1]
    IN  /\ assembly.k = "ok" => assembly.output.starting_address = first_org(code)
        /\ last_op = "load" => registers["PC"] = first_org(loaded_code)

(* OrgTwice (ORG 10H ... ORG 3) was loaded: PC is 10H *)
C19_Witness ==
    /\ last_op = "load"
    /\ loaded_code = OrgTwice
    /\ assembly.output.starting_address = 16
    /\ registers["PC"] = 16

(* the label a source line defines: NAME: or NAME:INSTR as its first word *)
label_at(line) ==
    LET words == split(upper(remove_comment(line)))
        pieces == split_on(words[1], ":", <<>>)
    IN  IF words = <<>> \/ ~contains(words[1], ":") THEN <<>>
        ELSE IF endswith(words[1], ":") THEN SubSeq(words[1], 1, Len(words[1]) - 1)
        ELSE pieces[1]

(* the lines of a source above its first END line *)
RECURSIVE above_end(_, _)
above_end(source, line_num) ==
    IF line_num > Len(source) THEN Len(source)
    ELSE LET words == split(upper(remove_comment(source[line_num])))
         IN  IF words # <<>> /\ words[1] = <<W("END")>> THEN line_num - 1
             ELSE above_end(source, line_num + 1)

(* the lines above END that define a label an earlier line defines *)
second_definitions(source) ==
    {j \in 1..above_end(source, 1) :
        /\ label_at(source[j]) # <<>>
        /\ \E i \in 1..(j - 1) : label_at(source[i]) = label_at(source[j])}

(* C20: a source that defines a label name on two lines above END (and is  *)
(* otherwise in order: it assembles without the second of them) fails with *)
(* a SyntaxError naming the second line; in a successful assembly no name  *)
(* is defined twice and the label of an instruction line is the location   *)
(* counter of that line.                                                   *)
C20_DuplicateLabels ==
    LET twice == second_definitions(code)
        j == CHOOSE n \in twice : \A m \in twice : n <= m
        rest == SubSeq(code, 1, j - 1) \o SubSeq(code, j + 1, Len(code))
        labels == assembly.output.labels
        line_to_address == assembly.output.line_to_address_map
    IN  /\ (assembly.k # "none" /\ twice # {})
               => /\ assembly.k # "ok"
                  /\ assemble(rest).k = "ok"
                         => (assembly.k = "SyntaxError" /\ assembly.line = j)
        /\ assembly.k = "ok"
               => \A l \in DOMAIN line_to_address :
                      label_at(code[l]) # <<>>
                          => /\ label_at(code[l]) \in DOMAIN labels
                             /\ labels[label_at(code[l])] = line_to_address[l]

(* DupFused (L: NOP / L:HLT) was assembled and failed at its line 2 *)
C20_Witness ==
    /\ last_op = "assemble"
    /\ code = DupFused
    /\ second_definitions(code) = {2}
    /\ assembly.k = "SyntaxError"
    /\ assembly.line = 2

(***************************************************************************)
(* Properties of the stack and of the conditional instructions.            *)
(***************************************************************************)

(* the flag a conditional jump, call or return tests, and the value at     *)
(* which it transfers control (8085 instruction set)                       *)
TestedFlag ==
    [JZ |-> <<"Z", 1>>, JNZ |-> <<"Z", 0>>, JC |-> <<"C", 1>>, JNC |-> <<"C", 0>>,
     JP |-> <<"S", 0>>, JM |-> <<"S", 1>>, JPE |-> <<"P", 1>>, JPO |-> <<"P", 0>>,
     CZ |-> <<"Z", 1>>, CNZ |-> <<"Z", 0>>, CC |-> <<"C", 1>>, CNC |-> <<"C", 0>>,
     CP |-> <<"S", 0>>, CM |-> <<"S", 1>>, CPE |-> <<"P", 1>>, CPO |-> <<"P", 0>>,
     RZ |-> <<"Z", 1>>, RNZ |-> <<"Z", 0>>, RC |-> <<"C", 1>>, RNC |-> <<"C", 0>>,
     RP |-> <<"S", 0>>, RM |-> <<"S", 1>>, RPE |-> <<"P", 1>>, RPO |-> <<"P", 0>>]

(* C21: PUSH, CALL, a taken conditional call and RST write the high byte   *)
(* of the 16-bit value they push at (SP-1) mod 65536 and its low byte at   *)
(* (SP-2) mod 65536, set SP to (SP-2) mod 65536 and change no other byte   *)
(* of memory; POP, RET and a taken conditional return read the low byte at *)
(* SP and the high byte at (SP+1) mod 65536, set SP to (SP+2) mod 65536    *)
(* and leave memory alone; the flags byte of PUSH PSW is                   *)
(* S Z 0 AC 0 P 1 C from bit 7 down to bit 0.                              *)
C21_StackDiscipline ==
    [][LET sp == registers["SP"]
           pc == registers["PC"]
           opcode == last_instruction'[1].s
           operand == last_instruction'[3].s
           taken == flags[TestedFlag[opcode][1]] = TestedFlag[opcode][2]
           flags_byte == 128 * flags.S + 64 * flags.Z + 16 * flags.AC + 4 * flags.P
                             + 2 + flags.C
           pushes(word) ==
               /\ mem_read(memory', (sp - 1) % 65536) = word \div 256
               /\ mem_read(memory', (sp - 2) % 65536) = word % 256
               /\ registers'["SP"] = (sp - 2) % 65536
               /\ \A x \in DOMAIN memory \cup DOMAIN memory' :
                      x \notin {(sp - 1) % 65536, (sp - 2) % 65536}
                          => mem_read(memory', x) = mem_read(memory, x)
           low == mem_read(memory, sp)
           high == mem_read(memory, (sp + 1) % 65536)
           pops == /\ registers'["SP"] = (sp + 2) % 65536
                   /\ memory' = memory
       IN  (last_op' = "step" /\ status' = "OK" /\ ~halted /\ error = NoError
                /\ pc < 65536) =>
               /\ opcode = "PUSH" =>
                      pushes(CASE operand = "B" -> registers["B"] * 256 + registers["C"]
                               [] operand = "D" -> registers["D"] * 256 + registers["E"]
                               [] operand = "H" -> registers["H"] * 256 + registers["L"]
                               [] operand = "PSW" -> registers["A"] * 256 + flags_byte)
               /\ opcode = "CALL" => pushes((pc + 3) % 65536)
               /\ (opcode \in CallOps /\ taken) => pushes((pc + 3) % 65536)
               /\ opcode = "RST" => pushes((pc + 1) % 65536)
               /\ opcode = "POP" =>
                      /\ pops
                      /\ operand = "B" => registers'["B"] = high /\ registers'["C"] = low
                      /\ operand = "D" => registers'["D"] = high /\ registers'["E"] = low
                      /\ operand = "H" => registers'["H"] = high /\ registers'["L"] = low
                      /\ operand = "PSW" =>
                             /\ registers'["A"] = high
                             /\ flags' = [S |-> bit(low, 7), Z |-> bit(low, 6),
                                          AC |-> bit(low, 4), P |-> bit(low, 2),
                                          C |-> bit(low, 0)]
               /\ (opcode = "RET" \/ (opcode \in RetOps /\ taken)) =>
                      /\ pops
                      /\ registers'["PC"] = high * 256 + low
      ]_vars

(* CC S was taken with SP = 1 and C = 1: the return address 000BH went to  *)
(* 0000H (high byte) and 0FFFFH (low byte), and SP is 0FFFFH               *)
C21_Witness ==
    /\ loaded_code = CallIf("CC", "RC", Hex(<<5, 10, 0, 1>>), Dec(<<1>>))
    /\ last_op = "step"
    /\ steps = 5
    /\ status = "OK"
    /\ last_instruction = <<W("CC"), Blank, W("S")>>
    /\ registers["SP"] = 65535
    /\ registers["PC"] = 12
    /\ mem_read(memory, 0) = 0
    /\ mem_read(memory, 65535) = 11

(* C22: a conditional jump, call or return tests the one flag of its       *)
(* mnemonic (Z, C, S for P and M, P for PE and PO).  When the condition    *)
(* holds it does what JMP, CALL or RET does: PC becomes the target (for a  *)
(* return, the word on the stack), a call pushes PC + 3, a return pops.    *)
(* When it does not hold, only PC changes: by 3 for a jump or a call, by 1 *)
(* for a return; SP and memory stay as they were.                          *)
C22_ConditionalTransfer ==
    [][LET sp == registers["SP"]
           pc == registers["PC"]
           opcode == last_instruction'[1].s
           taken == flags[TestedFlag[opcode][1]] = TestedFlag[opcode][2]
           target == program.labels[<<last_instruction'[3]>>]
           low == mem_read(memory, sp)
           high == mem_read(memory, (sp + 1) % 65536)
           pushed ==
               \A x \in DOMAIN memory \cup DOMAIN memory'
                          \cup {(sp - 1) % 65536, (sp - 2) % 65536} :
                   mem_read(memory', x) =
                       (IF x = (sp - 2) % 65536 THEN (pc + 3) % 256
                        ELSE IF x = (sp - 1) % 65536 THEN ((pc + 3) \div 256) % 256
                        ELSE mem_read(memory, x))
       IN  (last_op' = "step" /\ status' = "OK" /\ ~halted /\ error = NoError
                /\ opcode \in DOMAIN TestedFlag) =>
               /\ flags' = flags
               /\ io_ports' = io_ports
               /\ (opcode \in JumpOps /\ taken) =>
                      /\ registers' = [registers EXCEPT !["PC"] = target]
                      /\ memory' = memory
               /\ (opcode \in CallOps /\ taken) =>
                      /\ registers' = [registers EXCEPT !["PC"] = target,
                                                         !["SP"] = (sp - 2) % 65536]
                      /\ pushed
               /\ (opcode \in RetOps /\ taken) =>
                      /\ registers' = [registers EXCEPT !["PC"] = high * 256 + low,
                                                         !["SP"] = (sp + 2) % 65536]
                      /\ memory' = memory
               /\ (opcode \in JumpOps \cup CallOps /\ ~taken) =>
                      /\ registers' = [registers EXCEPT !["PC"] = pc + 3]
                      /\ memory' = memory
               /\ (opcode \in RetOps /\ ~taken) =>
                      /\ registers' = [registers EXCEPT !["PC"] = pc + 1]
                      /\ memory' = memory
      ]_vars

(* CALL S then RM with only P set (S = 0): the return was not taken, PC is *)
(* one past the RM and SP still two below the top                          *)
C22_Witness ==
    /\ loaded_code = CallIf("CALL", "RM", Hex(<<5, 10, 0, 4>>), Hex(<<3, 0, 0, 0>>))
    /\ last_op = "step"
    /\ steps = 6
    /\ status = "OK"
    /\ last_instruction = <<W("RM")>>
    /\ flags = [S |-> 0, Z |-> 0, AC |-> 0, P |-> 1, C |-> 0]
    /\ registers["PC"] = 13
    /\ registers["SP"] = 12286

(***************************************************************************)
(* The processor against the assembler's layout.                           *)
(***************************************************************************)
ControlOps == JumpOps \cup CallOps \cup RetOps \cup {"CALL", "RET", "RST", "PCHL", "HLT"}

(* C23: a step() that returns OK for an instruction that is not a control  *)
(* transfer advances PC by the length the first pass gives its mnemonic,   *)
(* which is 1, 2 or 3; in a source without ORG and DS the instruction then *)
(* at PC is the next one of the source.                                    *)
C23_PcFollowsLayout ==
    [][LET pc == registers["PC"]
           opcode == last_instruction'[1].s
           parsed_program == program.parsed_program
           k == CHOOSE i \in 1..Len(parsed_program) : parsed_program[i][1] = pc
           contiguous ==
               \A l \in 1..Len(loaded_code) :
                   \A w \in {split(upper(remove_comment(loaded_code[l])))} :
                       w # <<>> => w[1] \notin {<<W("ORG")>>, <<W("DS")>>}
       IN  (last_op' = "step" /\ status' = "OK" /\ ~halted /\ error = NoError
                /\ opcode \notin ControlOps) =>
               /\ first_pass_size(opcode) \in {1, 2, 3}
               /\ registers'["PC"] = pc + first_pass_size(opcode)
               /\ (contiguous /\ k < Len(parsed_program))
                      => parsed_program[k + 1][1] = registers'["PC"]
      ]_vars

(* LXI H, 4000H / LHLD 4000H / NOP / HLT: the LHLD at 3 left PC at the NOP *)
C23_Witness ==
    /\ loaded_code = Straight(<<W("LHLD"), Blank, Hex(<<4, 0, 0, 0>>)>>)
    /\ last_op = "step"
    /\ steps = 2
    /\ status = "OK"
    /\ last_instruction = <<W("LHLD"), Blank, Hex(<<4, 0, 0, 0>>)>>
    /\ registers["PC"] = 6
    /\ program.parsed_program[3][1] = 6

(***************************************************************************)
(* Properties of the arithmetic instructions.                              *)
(***************************************************************************)

(* C24: for every old value v of its register or memory byte, DCR leaves   *)
(* AC = 1 exactly when the low nibble of v is 0 (the decrement borrows     *)
(* across the nibble boundary), as SUI 1 does with A; INR leaves AC = 1    *)
(* exactly when the low nibble of v is 0FH; neither changes C.             *)
C24_IncDecAuxCarry ==
    [][LET opcode == last_instruction'[1].s
           reg == last_instruction'[3].s
           v == IF reg = "M"
                THEN mem_read(memory, registers["H"] * 256 + registers["L"])
                ELSE registers[reg]
       IN  (last_op' = "step" /\ status' = "OK" /\ ~halted /\ error = NoError) =>
               /\ opcode = "DCR" =>
                      /\ flags'.AC = (IF v % 16 = 0 THEN 1 ELSE 0)
                      /\ flags'.C = flags.C
               /\ opcode = "INR" =>
                      /\ flags'.AC = (IF v % 16 = 15 THEN 1 ELSE 0)
                      /\ flags'.C = flags.C
               /\ last_instruction' = <<W("SUI"), Blank, Dec(<<1>>)>> =>
                      flags'.AC = (IF registers["A"] % 16 = 0 THEN 1 ELSE 0)
      ]_vars

(* C25: with a the accumulator, v the operand and c the carry-in (0 for    *)
(* ADD and ADI, the C flag for ADC and ACI), the instruction leaves        *)
(* A = (a+v+c) mod 256, C = 1 iff a+v+c > 255, AC = 1 iff                  *)
(* (a mod 16)+(v mod 16)+c > 15, S = bit 7 of the new A, Z = 1 iff the new *)
(* A is 0, and P = 1 iff the new A has an even number of set bits.         *)
C25_AddFlags ==
    [][LET opcode == last_instruction'[1].s
           operand == last_instruction'[3]
           a == registers["A"]
           v == IF opcode \in {"ADI", "ACI"} THEN py_int(<<operand>>).v % 256
                ELSE IF operand.s = "M"
                THEN mem_read(memory, registers["H"] * 256 + registers["L"])
                ELSE registers[operand.s]
           c == IF opcode \in {"ADC", "ACI"} THEN flags.C ELSE 0
           sum == a + v + c
           new == registers'["A"]
           ones == bit(new, 0) + bit(new, 1) + bit(new, 2) + bit(new, 3)
                       + bit(new, 4) + bit(new, 5) + bit(new, 6) + bit(new, 7)
       IN  (last_op' = "step" /\ status' = "OK" /\ ~halted /\ error = NoError
                /\ opcode \in {"ADD", "ADI", "ADC", "ACI"}) =>
               /\ new = sum % 256
               /\ flags'.C = (IF sum > 255 THEN 1 ELSE 0)
               /\ flags'.AC = (IF (a % 16) + (v % 16) + c > 15 THEN 1 ELSE 0)
               /\ flags'.S = new \div 128
               /\ flags'.Z = (IF new = 0 THEN 1 ELSE 0)
               /\ flags'.P = (IF ones % 2 = 0 THEN 1 ELSE 0)
      ]_vars

(* MVI A, 0FH / STC / ACI 0F0H: 0FH + 0F0H + 1 = 100H, so A = 0 with C, AC, *)
(* Z and P set and S clear                                                  *)
C25_Witness ==
    /\ loaded_code = AddImm("ACI", Hex(<<0, 15>>), Hex(<<0, 15, 0>>), TRUE)
    /\ last_op = "step"
    /\ steps = 3
    /\ status = "OK"
    /\ last_instruction = <<W("ACI"), Blank, Hex(<<0, 15, 0>>)>>
    /\ registers["A"] = 0
    /\ flags = [S |-> 0, Z |-> 1, AC |-> 1, P |-> 1, C |-> 1]

(***************************************************************************)
(* Properties of the code generator.                                       *)
(***************************************************************************)

RegisterCode ==
    [B |-> 0, C |-> 1, D |-> 2, E |-> 3, H |-> 4, L |-> 5, M |-> 6, A |-> 7]

PairCode == [B |-> 0, D |-> 1, H |-> 2, SP |-> 3, PSW |-> 3]

RegisterBase ==
    [MVI |-> 6, INR |-> 4, DCR |-> 5, ADD |-> 128, ADC |-> 136, SUB |-> 144,
     SBB |-> 152, ANA |-> 160, XRA |-> 168, ORA |-> 176, CMP |-> 184]

PairBase ==
    [LXI |-> 1, STAX |-> 2, INX |-> 3, DAD |-> 9, LDAX |-> 10, DCX |-> 11,
     POP |-> 193, PUSH |-> 197]

(* C27: code generation is bit-exact.  For the source ORG 100H / line /    *)
(* NOP the byte at 100H is 40H + 8*code(d) + code(s) for MOV d, s; base +  *)
(* 8*code(r) for MVI, INR and DCR r; base + code(r) for ADD, ADC, SUB,     *)
(* SBB, ANA, XRA, ORA and CMP r; base + 16*code(rp) for the register pair  *)
(* instructions; and a 16-bit operand has its low byte at 101H and its     *)
(* high byte at 102H.                                                      *)
C27_BitExactEncoding ==
    LET line == code[2]
        op == line[1].s
        operand == line[3]
        byte(i) == mem_read(assembly.output.memory, 256 + i)
        word == IF operand = Hex(<<1, 2, 3, 4>>) THEN <<52, 18>> ELSE <<171, 0>>
    IN  code \in EncodingPrograms /\ last_op = "assemble"
            => /\ line \in MovLines \cup RegisterLines \cup PairLines \cup AddressLines
                     => assembly.k = "ok"
               /\ line \in MovLines
                     => byte(0) = 64 + 8 * RegisterCode[operand.s] + RegisterCode[line[6].s]
               /\ line \in RegisterLines /\ op \in {"MVI", "INR", "DCR"}
                     => byte(0) = RegisterBase[op] + 8 * RegisterCode[operand.s]
               /\ line \in RegisterLines /\ op = "MVI" => byte(1) = 90
               /\ line \in RegisterLines /\ op \in RegisterAluOps
                     => byte(0) = RegisterBase[op] + RegisterCode[operand.s]
               /\ line \in PairLines
                     => byte(0) = PairBase[op] + 16 * PairCode[operand.s]
               /\ line \in PairLines /\ op = "LXI"
                     => byte(1) = 52 /\ byte(2) = 18
               /\ line \in AddressLines
                     => /\ byte(0) = addr16_opcode(op)
                        /\ byte(1) = word[1] /\ byte(2) = word[2]

(* LXI SP, 1234H assembled at 100H: 31H 34H 12H *)
C27_Witness ==
    /\ code = OneLine(<<W("LXI"), Blank, W("SP"), Comma, Blank, Hex(<<1, 2, 3, 4>>)>>)
    /\ assembly.k = "ok"
    /\ mem_read(assembly.output.memory, 256) = 49
    /\ mem_read(assembly.output.memory, 257) = 52
    /\ mem_read(assembly.output.memory, 258) = 18

(* the value of the operand of ORG in the sources of OrgPrograms *)
org_value(source) ==
    CASE source = OrgSymbol -> 32
      [] source = OrgSum -> 18
      [] source = OrgLiteral -> 32

(* C28: ORG <expr>, where <expr> is an EQU symbol defined above or a sum   *)
(* over symbols and literals, assembles, and both passes set the location  *)
(* counter to the value of <expr>: starting_address is that value (first   *)
(* pass) and the instruction after the ORG is placed there (second pass).  *)
C28_OrgExpression ==
    code \in OrgPrograms /\ last_op = "assemble"
        => /\ assembly.k = "ok"
           /\ assembly.output.starting_address = org_value(code)
           /\ assembly.output.parsed_program = <<<<org_value(code), <<<<W("HLT")>>>>>>>>
           /\ mem_read(assembly.output.memory, org_value(code)) = 118

(* C29: nothing below the first END line is assembled: a source that       *)
(* assembles gives what its lines up to END give, byte for byte, with the  *)
(* same parsed_program, ranges, labels, symbols and line_to_address.       *)
C29_NothingAfterEnd ==
    LET end == above_end(code, 1) + 1
    IN  (last_op = "assemble" /\ end < Len(code) /\ assembly.k = "ok")
            => assembly = assemble(SubSeq(code, 1, end))

(* C30: in a successful assembly line_to_address and address_to_line are   *)
(* inverse to each other, also when the source has several ORG lines: the  *)
(* address of every line leads back to that line, and the line of every    *)
(* address leads back to that address.                                     *)
C30_LineAddressInverse ==
    LET line_to_address == assembly.output.line_to_address_map
        address_to_line == assembly.output.address_to_line_map
    IN  assembly.k = "ok"
            => /\ \A l \in DOMAIN line_to_address :
                      /\ line_to_address[l] \in DOMAIN address_to_line
                      /\ address_to_line[line_to_address[l]] = l
               /\ \A a \in DOMAIN address_to_line :
                      /\ address_to_line[a] \in DOMAIN line_to_address
                      /\ line_to_address[address_to_line[a]] = a

(* the value of a numeral: hexadecimal with the suffix H, decimal without *)
numeral_value(str) ==
    IF str[1].s = "#H" THEN digits_value(str[1].d, 16, 0) ELSE digits_value(str[1].d, 10, 0)

(* C31: an operand of a successful assembly is resolved in a fixed order:  *)
(* a name of the symbol table gives the symbol's value, also when a label  *)
(* has the same name; otherwise a name of the label table gives the        *)
(* label's address; only otherwise the text is read as a numeral,          *)
(* hexadecimal when it ends in H and decimal when not.  The same order     *)
(* holds for a name inside an expression.                                  *)
C31_ResolutionOrder ==
    LET out == assembly.output
        resolved(str) ==
            IF str \in DOMAIN out.symbols THEN out.symbols[str]
            ELSE IF str \in DOMAIN out.labels THEN out.labels[str]
            ELSE numeral_value(str)
        operand(words) ==
            strip(IF name_of(words[1]) \in {"MVI", "LXI"} THEN words[3] ELSE words[2],
                  {",", ";", " "})
        stored(entry) ==
            IF name_of(entry[2][1]) \in {"LXI"} \cup Addr16Ops
            THEN mem_read(out.memory, entry[1] + 1) + 256 * mem_read(out.memory, entry[1] + 2)
            ELSE mem_read(out.memory, entry[1] + 1)
        width(entry) ==
            IF name_of(entry[2][1]) \in {"LXI"} \cup Addr16Ops THEN 65536 ELSE 256
    IN  (assembly.k = "ok" /\ code \in ResolvePrograms \cup Programs \cup EncodingPrograms)
            => /\ \A i \in 1..Len(out.parsed_program) :
                      LET entry == out.parsed_program[i]
                      IN  (/\ name_of(entry[2][1]) \in {"MVI", "LXI"} \cup Addr16Ops \cup Imm8Ops
                           /\ ~has_operator(operand(entry[2]), Operators)
                           /\ \A j \in (i + 1)..Len(out.parsed_program) :
                                  out.parsed_program[j][1] \notin entry[1]..(entry[1] + 2))
                              => stored(entry) = resolved(operand(entry[2])) % width(entry)
               /\ code = NameInSum => stored(out.parsed_program[2]) = 6

(* NOP / X: EQU 5 / LXI H, X / HLT: X is the label 1 and the symbol 5, and *)
(* LXI H, X stores 5                                                       *)
C31_Witness ==
    /\ code = NameInBoth
    /\ assembly.k = "ok"
    /\ assembly.output.labels[<<W("X")>>] = 1
    /\ assembly.output.symbols[<<W("X")>>] = 5
    /\ mem_read(assembly.output.memory, 2) = 5
    /\ mem_read(assembly.output.memory, 3) = 0

(* the EQU definitions that can be resolved from numerals, labels and the  *)
(* symbols of resolvable definitions: the least such set                   *)
RECURSIVE resolvable_equs(_, _, _)
resolvable_equs(defs, labels, known) ==
    LET operands(expr) ==
            {expr[i] : i \in {j \in 1..Len(expr) : expr[j].s \notin Operators \cup {" "}}}
        settled(a) ==
            \/ a.d # <<>>
            \/ <<a>> \in DOMAIN labels
            \/ \E i \in known : defs[i].symbol = <<a>>
        more == {i \in 1..Len(defs) : \A a \in operands(defs[i].value_expr) : settled(a)}
    IN  IF more = known THEN known ELSE resolvable_equs(defs, labels, more)

(* C32: EQU resolution terminates: the worklist loop of the pre-pass and   *)
(* the one after the label pass run at most once per definition they are   *)
(* given, cyclic definitions included, and assemble either resolves every  *)
(* EQU or fails with 'Could not resolve EQU symbols' (a SyntaxError        *)
(* without line number) naming exactly the definitions that cannot be      *)
(* resolved from numerals, resolved symbols and labels.                    *)
C32_EquResolutionTerminates ==
    LET source == [i \in 1..Len(code) |-> upper(code[i])]
        defs == collect_equ(source, 1)
        pre == preprocess_equ_directives(source)
        labels == first_pass(source, pre.symbols).st.labels
        pend == resolve_pending_equs(pre.pending, pre.symbols, labels)
        named == {pend.pending[i].symbol : i \in 1..Len(pend.pending)}
        resolvable == resolvable_equs(defs, labels, {})
        unresolvable == {defs[i].symbol : i \in (1..Len(defs)) \ resolvable}
    IN  (code \in EquPrograms /\ last_op = "assemble")
            => /\ equ_fixpoint(defs, <<>>, <<>>).sweeps <= Len(defs)
               /\ equ_fixpoint(pre.pending, pre.symbols, labels).sweeps <= Len(pre.pending)
               /\ \/ /\ assembly.k = "ok"
                     /\ unresolvable = {}
                     /\ \A i \in 1..Len(defs) : defs[i].symbol \in DOMAIN assembly.output.symbols
                  \/ /\ assembly.k = "SyntaxError" /\ assembly.line = 0
                     /\ unresolvable # {}
                     /\ named = unresolvable

(* C33: the instruction a step executes depends on PC and parsed_program   *)
(* only, never on the bytes in memory: it is the first parsed_program      *)
(* entry at PC, whatever memory holds there, and a processor that differs  *)
(* only in the bytes at the code addresses selects the same instruction    *)
(* and returns the same status.                                            *)
C33_FetchIgnoresMemory ==
    [][(last_op' = "step" /\ ~halted /\ error = NoError)
           => LET parsed_program == program.parsed_program
                  at_pc == {i \in 1..Len(parsed_program) :
                                parsed_program[i][1] = registers["PC"]}
                  first == CHOOSE i \in at_pc : \A j \in at_pc : i <= j
                  blank == [a \in DOMAIN memory \ program.program_memory_range
                                |-> memory[a]]
                  other == step([processor EXCEPT !.memory = blank])
              IN  /\ at_pc # {} => last_instruction' = join(parsed_program[first][2])
                  /\ at_pc = {} => status' = "ERROR" /\ last_instruction' = last_instruction
                  /\ other.p.last_instruction = last_instruction'
                  /\ other.status = status']_vars

(* MVI A, 76H / STA 5 / NOP / MVI B, 1 / HLT after three steps: address 5  *)
(* holds the byte of HLT and the step at PC = 5 has executed the NOP       *)
C33_Witness ==
    /\ loaded_code = SelfModifying
    /\ last_op = "step"
    /\ steps = 3
    /\ mem_read(memory, 5) = 118
    /\ last_instruction = <<W("NOP")>>
    /\ status = "OK"
    /\ registers["PC"] = 6
    /\ ~halted

(* C34: the registers keep their widths through load_program and step: A, *)
(* B, C, D, E, H and L are in 0..255, SP and PC in 0..65535 and every flag *)
(* is 0 or 1, also when the instruction executed is at the top of the      *)
(* address space.                                                          *)
C34_RegisterWidths ==
    /\ \A r \in {"A", "B", "C", "D", "E", "H", "L"} : registers[r] \in 0..255
    /\ registers["SP"] \in 0..65535
    /\ registers["PC"] \in 0..65535
    /\ \A f \in {"S", "Z", "AC", "P", "C"} : flags[f] \in {0, 1}

(* C35: a program that assembles never fails to decode when it runs: a     *)
(* step of a processor that is neither halted nor in error returns ERROR   *)
(* only when parsed_program has no instruction at PC.                      *)
C35_AssembledProgramDecodes ==
    [][(last_op' = "step" /\ ~halted /\ error = NoError /\ status' = "ERROR")
           => \A i \in 1..Len(program.parsed_program) :
                  program.parsed_program[i][1] # registers["PC"]]_vars

(* C36: execution agrees with the assembled image: a taken JMP, Jcc, CALL  *)
(* or Ccc sets PC to the 16-bit address stored low byte first at PC+1 and  *)
(* PC+2, MVI r loads the byte stored at PC+1 and LXI rp the word stored at *)
(* PC+1 and PC+2, also when the operand is an expression or a name that is *)
(* both a label and an EQU symbol.                                         *)
C36_ExecutionAgreesWithImage ==
    [][LET pc == registers["PC"]
           opcode == last_instruction'[1].s
           operand == last_instruction'[3].s
           taken == opcode \in {"JMP", "CALL"}
                        \/ flags[TestedFlag[opcode][1]] = TestedFlag[opcode][2]
           byte == mem_read(memory, pc + 1)
           word == mem_read(memory, pc + 1) + 256 * mem_read(memory, pc + 2)
       IN  (last_op' = "step" /\ status' = "OK" /\ ~halted /\ error = NoError
                /\ pc + 2 < 65536) =>
               /\ (opcode \in JumpOps \cup CallOps \cup {"CALL"} /\ taken)
                      => registers'["PC"] = word
               /\ (opcode = "MVI" /\ operand # "M") => registers'[operand] = byte
               /\ (opcode = "LXI" /\ operand = "SP") => registers'["SP"] = word
               /\ (opcode = "LXI" /\ operand \in {"B", "D", "H"})
                      => LET low == CASE operand = "B" -> "C" [] operand = "D" -> "E"
                                      [] operand = "H" -> "L"
                         IN  registers'[operand] * 256 + registers'[low] = word]_vars

(* C37: the two passes agree on addresses: in a successful assembly the    *)
(* instruction of line l is emitted at line_to_address[l] (the lines of    *)
(* line_to_address, in order, are the entries of parsed_program, in        *)
(* order), and the label of an instruction line has the address its        *)
(* instruction is emitted at, also when a DS above it takes its size from  *)
(* a symbol or an expression.                                              *)
C37_PassesAgree ==
    LET out == assembly.output
        lines == DOMAIN out.line_to_address_map
        nth(i) == CHOOSE l \in lines : Cardinality({m \in lines : m < l}) = i - 1
    IN  assembly.k = "ok"
            => /\ Cardinality(lines) = Len(out.parsed_program)
               /\ \A i \in 1..Len(out.parsed_program) :
                      /\ out.parsed_program[i][1] = out.line_to_address_map[nth(i)]
                      /\ label_at(code[nth(i)]) # <<>>
                            => out.labels[label_at(code[nth(i)])]
                                   = out.parsed_program[i][1]

(* C38: a step that returns ERROR, at the first detection or because the   *)
(* error is sticky, leaves the registers with PC and SP, the flags, memory *)
(* and io_ports exactly as they were; only error and last_instruction may  *)
(* change.                                                                 *)
C38_ErrorStepIsAtomic ==
    [][(last_op' = "step" /\ status' = "ERROR")
           => /\ registers' = registers
              /\ flags' = flags
              /\ memory' = memory
              /\ io_ports' = io_ports
              /\ halted' = halted
              /\ program' = program]_vars

(* LXI SP, 2000H / PUSH SP / HLT after two steps: the PUSH has failed and  *)
(* PC and SP are those of before it                                        *)
C38_Witness ==
    /\ loaded_code = PushSp
    /\ last_op = "step"
    /\ steps = 2
    /\ status = "ERROR"
    /\ error # NoError
    /\ last_instruction = <<W("PUSH"), Blank, W("SP")>>
    /\ registers["PC"] = 3
    /\ registers["SP"] = 8192

(* C39: DAA adjusts a sum of packed-BCD bytes: with A = x, ADI y or ADD of *)
(* a register holding y, and then DAA, A is the packed-BCD byte of         *)
(* (x + y) mod 100 and C is 1 exactly when x + y >= 100.                   *)
C39_DecimalAdjust ==
    \A x \in BcdValues, y \in BcdValues :
        (/\ loaded_code \in {BcdAdi(x, y), BcdAdd(x, y)}
         /\ last_op = "step" /\ status = "OK"
         /\ last_instruction = <<W("DAA")>>)
            => /\ registers["A"] = 16 * (((x + y) % 100) \div 10) + ((x + y) % 10)
               /\ flags.C = IF x + y >= 100 THEN 1 ELSE 0

(* C40: the blank after the operand-separating comma is optional: for MOV, *)
(* MVI and LXI the source ORG 100H / OP X,Y / NOP assembles, and to the    *)
(* same memory image as ORG 100H / OP X, Y / NOP.                          *)
C40_CommaBlankOptional ==
    \A form \in TwoOperandForms :
        (code = OneLine(TwoOperand(form, <<Comma>>)) /\ last_op = "assemble")
            => LET spaced == assemble(OneLine(TwoOperand(form, <<Comma, Blank>>)))
               IN  /\ spaced.k = "ok"
                   /\ assembly.k = "ok"
                   /\ assembly.output.memory = spaced.output.memory
====
